---- MODULE Spec2Model ----
(***************************************************************************)
(* Model of moonraker's power component (components/power.py): the device  *)
(* registry PrinterPower and the per-device engine PowerDevice with its    *)
(* HTTP, GPIO and RF drivers, run on one cooperative event loop.  Every    *)
(* action is one run of a coroutine or callback between two suspension     *)
(* points (await), which is the unit the event loop executes atomically.   *)
(***************************************************************************)
EXTENDS Integers, Sequences, FiniteSets, TLC

\* ------------------------------------------------------------------ bounds
\* number of request tasks (process_request coroutines) alive at once
MaxTasks == 2
\* cap on the delayed callbacks of one kind armed at once for one device
MaxTimers == 2
\* the loop time at which the clock stops advancing
MaxTime == 2

TaskIds == 1..MaxTasks

\* the configured device names, in the order of PrinterPower.devices
DeviceOrder == <<"a">>
Devices == {DeviceOrder[i] : i \in 1..Len(DeviceOrder)}

\* the values of PowerDevice.state
States == {"init", "on", "off", "error"}

\* the requests a caller can hand to process_request; "bogus" stands for
\* any string that is none of status/on/off/toggle
Requests == {"status", "on", "off", "toggle", "bogus"}

\* ------------------------------------------------------- configurations
\* The options of a [power ...] section that the engine reads.  timer = 0
\* stands for "no timer option" (the option must be above 0 when given),
\* poll_interval = 0 for "no poll_interval option" (at least 1 when given).
HttpLocked ==
    [type |-> "http", locked_while_printing |-> TRUE,
     off_when_shutdown |-> FALSE, off_when_shutdown_delay |-> 0,
     klipper_restart |-> TRUE, bound_services |-> <<"svc1", "svc2">>,
     restrict_actions |-> TRUE, timer |-> 0, on_when_queued |-> FALSE,
     poll_interval |-> 0]

HttpOpen ==
    [type |-> "http", locked_while_printing |-> FALSE,
     off_when_shutdown |-> TRUE, off_when_shutdown_delay |-> 0,
     klipper_restart |-> FALSE, bound_services |-> <<"svc1", "svc2">>,
     restrict_actions |-> FALSE, timer |-> 0, on_when_queued |-> FALSE,
     poll_interval |-> 0]

HttpDelay ==
    [type |-> "http", locked_while_printing |-> FALSE,
     off_when_shutdown |-> TRUE, off_when_shutdown_delay |-> 1,
     klipper_restart |-> FALSE, bound_services |-> <<>>,
     restrict_actions |-> TRUE, timer |-> 0, on_when_queued |-> FALSE,
     poll_interval |-> 0]

GpioTimer ==
    [type |-> "gpio", locked_while_printing |-> FALSE,
     off_when_shutdown |-> TRUE, off_when_shutdown_delay |-> 0,
     klipper_restart |-> FALSE, bound_services |-> <<>>,
     restrict_actions |-> TRUE, timer |-> 1, on_when_queued |-> FALSE,
     poll_interval |-> 0]

RfTimer ==
    [type |-> "rf", locked_while_printing |-> FALSE,
     off_when_shutdown |-> FALSE, off_when_shutdown_delay |-> 0,
     klipper_restart |-> FALSE, bound_services |-> <<>>,
     restrict_actions |-> TRUE, timer |-> 1, on_when_queued |-> FALSE,
     poll_interval |-> 0]

\* the configurations of the request-engine runs and of the timer runs
Configs == {HttpLocked, HttpOpen}
TimerConfigs == {HttpDelay, GpioTimer, RfTimer}

\* ---------------------------------------------------------------- state
VARIABLES
    devices,          \* PrinterPower.devices: name -> PowerDevice fields
    delay_callbacks,  \* event loop: armed delayed callbacks, per device
    tasks,            \* event loop: the process_request coroutines
    klippy,           \* what the klippy connection reports
    last,             \* what the latest step did: the request that ended
                      \* in it, or the callback that ran in it
    loop_time         \* event loop: get_loop_time(), in ticks

vars == <<devices, delay_callbacks, tasks, klippy, last, loop_time>>

\* PowerDevice.__init__ (and GpioDevice.__init__): the fields of a device
\* right after construction from its configuration section.
\* init_task is "none" (no handle), "pending" (task created, not started),
\* "running" (the initializer holds the lock and retries the status
\* request), "cancelling" (cancel() was called on the running task, the
\* CancelledError is not delivered yet) or "done" (handle of a finished
\* task).  poll_task is the handle _poll_task ("none" or "set"); poller is
\* the poll loop itself: "none" (no live task), "sleeping", or "requesting"
\* (it awaits the process_request in slot poll_slot).  closing records
\* close(): "no", "waiting" (the coroutine returned by close() is being
\* awaited) or "closed".  last_update_time is _last_update_time.
\* is_shutdown is the flag of a KlipperDevice.  query_topic (set or not),
\* must_query and mqtt_connected (self.mqtt.is_connected()) are those of an
\* MQTTDevice, with the defaults of its options.  pending holds the event
\* handlers of the device that were dispatched and have not run yet
\* ("ready", "connected", "disconnected"), running the handler that holds
\* the request lock at an await ("none" or "connected").  sleep_until is
\* the loop time at which the asyncio.sleep of the poll loop ends.
\* initial_state is the option ("none" = unset, its default); init_pc is
\* the await the initializer is suspended in after its status request
\* succeeded ("none", "set_power" or "services", init_svc = the service
\* in turn) and init_log what the initializer has done, in order.
PowerDevice(c) ==
    [type |-> c.type,
     state |-> "init",
     request_lock |-> [locked |-> FALSE, waiters |-> <<>>],
     locked_while_printing |-> c.locked_while_printing,
     off_when_shutdown |-> c.off_when_shutdown,
     off_when_shutdown_delay |-> c.off_when_shutdown_delay,
     shutdown_timer_handle |-> "none",
     klipper_restart |-> c.klipper_restart,
     bound_services |-> c.bound_services,
     need_scheduled_restart |-> FALSE,
     restrict_actions |-> c.restrict_actions,
     timer |-> c.timer,
     timer_handle |-> "none",
     on_when_queued |-> c.on_when_queued,
     init_task |-> "none",
     poll_interval |-> c.poll_interval,
     poll_task |-> "none",
     poller |-> "none",
     poll_slot |-> 0,
     closing |-> "no",
     last_update_time |-> 0,
     is_shutdown |-> FALSE,
     query_topic |-> FALSE,
     must_query |-> FALSE,
     mqtt_connected |-> FALSE,
     pending |-> {},
     running |-> "none",
     sleep_until |-> 0,
     initial_state |-> "none",
     init_pc |-> "none",
     init_svc |-> 0,
     init_log |-> <<>>]

\* a task slot that holds no coroutine.  coro is the coroutine function
\* (process_request or _notify_external_change); req, force, base_state, cur_state
\* are the parameters and locals of process_request (request is req after
\* the toggle has been resolved); the other fields record what the
\* coroutine has done: refreshed = the state stored when the refresh ended,
\* printing = what is_printing() reported then, set_arg / set_result = the
\* argument and outcome of set_power, notified = power:power_changed
\* events sent, svc_log = service actions performed, restart_armed /
\* restarts = need_scheduled_restart set / FIRMWARE_RESTART scheduled,
\* svc_errors = service actions that raised (and were logged).
IdleTask ==
    [pc |-> "idle", coro |-> "none", dev |-> "none", req |-> "none", force |-> FALSE,
     base_state |-> "none", refreshed |-> "none", cur_state |-> "none",
     request |-> "none", set_arg |-> "none", action |-> "none",
     svc_idx |-> 0, notified |-> 0, svc_log |-> <<>>, restarts |-> 0,
     error |-> "none", result |-> "none", acquired |-> FALSE,
     printing |-> FALSE, set_result |-> "none", restart_armed |-> FALSE,
     svc_errors |-> 0, refresh_failed |-> FALSE]

\* the latest step ended no request and ran no callback
NoEvent == [op |-> "none"]

\* the supervised hardware as the klippy connection reports it
KlippyValues == {"startup", "ready", "printing", "shutdown"}

\* kconn.state: the KlippyState of the connection
KlippyState == IF klippy = "printing" THEN "ready" ELSE klippy

\* kconn.is_printing()
is_printing == klippy = "printing"

\* KlippyState.startup_complete()
startup_complete(s) == s \in {"ready", "shutdown"}

Init ==
    /\ devices \in {[d \in Devices |-> PowerDevice(c[d])] : c \in [Devices -> Configs]}
    /\ delay_callbacks = [d \in Devices |-> [auto |-> 0, shutdown |-> 0]]
    /\ tasks = [t \in TaskIds |-> IdleTask]
    /\ klippy = "startup"
    /\ last = NoEvent
    /\ loop_time = 0

\* ------------------------------------------------- the engine, step by step
\* The operators below take and return a context X = [D, L, T]: the fields
\* of the device (D), the delayed callbacks armed for it in the event loop
\* (L) and the running coroutine (T).  A coroutine runs from one await to
\* the next in one piece, so the operators chain until T.pc names the next
\* suspension point or the end of the coroutine.

\* (mutant of CanAcquire: the lock is taken without looking at `locked`)
CanAcquireUnlocked(lock) == lock.waiters = <<>>

\* asyncio.Lock.acquire without waiting: the lock is free and nobody queues
CanAcquire(lock) == ~lock.locked /\ lock.waiters = <<>>

\* PowerDevice.notify_power_changed: send the power:power_changed event
notify_power_changed(X) == [X EXCEPT !.T.notified = @ + 1]

\* (mutant of record_update_time: the time is not recorded)
record_update_time_skip(X) == X

\* `self._last_update_time = eventloop.get_loop_time()`
record_update_time(X) == [X EXCEPT !.D.last_update_time = loop_time]

\* (mutant of ExitRequest: the lock is released on a normal return only)
ExitRequestOnReturn(X) ==
    IF X.T.pc = "done"
    THEN [record_update_time(X) EXCEPT !.D.request_lock.locked = FALSE]
    ELSE record_update_time(X)

\* leaving the try (its finally clause) and `async with self.request_lock`
\* on any exit of the body: return, raise or cancellation
ExitRequest(X) == [record_update_time(X) EXCEPT !.D.request_lock.locked = FALSE]

\* `return cur_state`
Return(X) == ExitRequest([X EXCEPT !.T.pc = "done", !.T.result = X.T.cur_state])


\* `raise self.server.error(...)` leaving process_request
Raise(X, err) == ExitRequest([X EXCEPT !.T.pc = "failed", !.T.error = err])

\* (mutant of schedule_firmware_restart: the restart is not skipped when
\* klippy reports ready)
schedule_firmware_restart_always(X, state) ==
    IF ~X.D.need_scheduled_restart THEN X
    ELSE [X EXCEPT !.D.need_scheduled_restart = FALSE, !.T.restarts = @ + 1]

\* (mutant of schedule_firmware_restart: the pending flag is not cleared)
schedule_firmware_restart_keep(X, state) ==
    IF ~X.D.need_scheduled_restart THEN X
    ELSE IF state = "ready" THEN X
         ELSE [X EXCEPT !.T.restarts = @ + 1]

\* PowerDevice._schedule_firmware_restart(state)
schedule_firmware_restart(X, state) ==
    IF ~X.D.need_scheduled_restart THEN X
    ELSE LET X1 == [X EXCEPT !.D.need_scheduled_restart = FALSE]
         IN IF state = "ready" THEN X1
            ELSE [X1 EXCEPT !.T.restarts = @ + 1]

\* PowerDevice.process_power_changed, from the restart check to its end
power_changed_restart(X) ==
    IF X.D.state = "on" /\ X.D.klipper_restart
    THEN LET X1 == [X EXCEPT !.D.need_scheduled_restart = TRUE,
                             !.T.restart_armed = TRUE]
         IN IF ~startup_complete(KlippyState) THEN X1
            ELSE schedule_firmware_restart(X1, KlippyState)
    ELSE X

\* PowerDevice.process_power_changed up to its first await: notify, then
\* process_bound_services, which awaits one service action after another
process_power_changed(X) ==
    LET X1 == notify_power_changed(X)
    IN IF X1.D.bound_services # <<>> /\ X1.D.state \in {"on", "off"}
       THEN [X1 EXCEPT !.T.pc = "services", !.T.svc_idx = 1,
                       !.T.action = IF X1.D.state = "on" THEN "start" ELSE "stop"]
       ELSE Return(power_changed_restart(X1))

\* (mutant of external_change: restrict_actions is not looked at, the side
\* effects always run)
external_change_full(X) == process_power_changed(X)

\* (mutant of external_change: restrict_actions is not looked at, only
\* the notification is sent)
external_change_notify(X) == Return(notify_power_changed(X))

\* the branch taken when the refresh showed a change and no transition is
\* needed: notify only, or full side effects
external_change(X) ==
    IF X.D.restrict_actions
    THEN Return(notify_power_changed(X))
    ELSE process_power_changed(X)

\* GpioDevice._check_timer: arm the auto-off timer when the device is on
check_timer(X) ==
    IF X.D.state = "on" /\ X.D.timer # 0
    THEN [X EXCEPT !.L.auto = @ + 1, !.D.timer_handle = "armed"]
    ELSE X

\* `if self.timer_handle is not None: cancel(); self.timer_handle = None`
cancel_timer(X) ==
    IF X.D.timer_handle = "armed"
    THEN [X EXCEPT !.L.auto = @ - 1, !.D.timer_handle = "none"]
    ELSE [X EXCEPT !.D.timer_handle = "none"]

\* GpioDevice.set_power(state); ok = the pin write raised no exception
GpioSetPower(X, state, ok) ==
    LET X1 == cancel_timer(X)
    IN IF ~ok THEN [X1 EXCEPT !.D.state = "error", !.T.error = "set_power",
                              !.T.set_result = "fail"]
       ELSE check_timer([X1 EXCEPT !.D.state = state, !.T.set_result = state])

\* (mutant of RfSetPower: a failure to transmit leaves the state as it was)
RfSetPowerKeepState(X, state, ok) ==
    IF ~ok THEN [X EXCEPT !.T.error = "set_power", !.T.set_result = "fail"]
    ELSE check_timer([X EXCEPT !.D.state = state, !.T.set_result = state])

\* RFDevice.set_power(state); ok = transmitting the code raised no exception
RfSetPower(X, state, ok) ==
    IF ~ok THEN [X EXCEPT !.D.state = "error", !.T.error = "set_power",
                          !.T.set_result = "fail"]
    ELSE check_timer([X EXCEPT !.D.state = state, !.T.set_result = state])

\* (mutant of AfterSetPower: the side effects after set_power depend on
\* restrict_actions, as they do after an external change)
AfterSetPowerRestricted(X) ==
    IF X.T.error # "none" THEN Raise(X, X.T.error)
    ELSE external_change([X EXCEPT !.T.cur_state = X.D.state])

\* process_request after set_power has returned or raised
AfterSetPower(X) ==
    IF X.T.error # "none" THEN Raise(X, X.T.error)
    ELSE process_power_changed([X EXCEPT !.T.cur_state = X.D.state])

\* a set_power that raises before it sends anything, leaving the state
\* as it is
SetPowerRefused(X, err) ==
    [X EXCEPT !.T.error = err, !.T.set_result = "refused"]

\* KlipperDevice.set_power up to its first await
KlipperSetPower(X) ==
    IF X.D.is_shutdown
    THEN AfterSetPower(SetPowerRefused(X, "klippy_shutdown"))
    ELSE [cancel_timer(X) EXCEPT !.T.pc = "set_power"]

\* MQTTDevice.set_power up to its first await
MqttSetPower(X) ==
    IF ~X.D.mqtt_connected
    THEN AfterSetPower(SetPowerRefused(X, "not_connected"))
    ELSE [X EXCEPT !.T.pc = "set_power"]

\* `ret = self.set_power(req)` and, for a coroutine, its await
CallSetPower(X, ok) ==
    LET X0 == [X EXCEPT !.T.set_arg = X.T.request]
    IN CASE X.D.type = "http" -> [X0 EXCEPT !.T.pc = "set_power"]
         [] X.D.type = "gpio" -> AfterSetPower(GpioSetPower(X0, X0.T.request, ok))
         [] X.D.type = "rf" -> AfterSetPower(RfSetPower(X0, X0.T.request, ok))
         [] X.D.type = "klipper" -> KlipperSetPower(X0)
         [] X.D.type = "mqtt" -> MqttSetPower(X0)

\* (mutant of ResolveToggle: the toggle is resolved against the state
\* stored before the refresh)
ResolveToggleStale(req, base_state, cur_state) ==
    IF req = "toggle"
    THEN (IF base_state = "off" THEN "on" ELSE "off")
    ELSE req

\* `if req == "toggle": req = "on" if cur_state == "off" else "off"`
ResolveToggle(req, base_state, cur_state) ==
    IF req = "toggle"
    THEN (IF cur_state = "off" THEN "on" ELSE "off")
    ELSE req

\* (mutant of PrintingLocked: the test of `force` is inverted)
PrintingLockedInverted(D, force) ==
    force /\ D.locked_while_printing /\ is_printing

\* (mutant of PrintingLocked: `force` is not looked at)
PrintingLockedAlways(D, force) ==
    D.locked_while_printing /\ is_printing

\* the printing lock: `not force and locked_while_printing and is_printing()`
PrintingLocked(D, force) ==
    ~force /\ D.locked_while_printing /\ is_printing

\* (mutant of SameState: the request is never taken to be the current state)
SameStateNever(req, cur_state) == FALSE

\* `if req == cur_state`: the device is already in the requested state
SameState(req, cur_state) == req = cur_state

\* process_request from `cur_state = self.state` on: the refresh is over
Decide(X, ok) ==
    LET cur == X.D.state
        req == ResolveToggle(X.T.req, X.T.base_state, cur)
        X1 == [X EXCEPT !.T.cur_state = cur, !.T.refreshed = cur, !.T.request = req,
                        !.T.printing = is_printing]
    IN IF req \in {"on", "off"}
       THEN IF SameState(req, cur)
            THEN (IF X1.T.base_state # cur THEN external_change(X1) ELSE Return(X1))
            ELSE IF PrintingLocked(X1.D, X1.T.force)
                 THEN Raise(X1, "printing")
                 ELSE CallSetPower(X1, ok)
       ELSE IF req # "status"
            THEN Raise(X1, "unsupported")
            ELSE IF X1.T.base_state # cur THEN external_change(X1) ELSE Return(X1)

\* KlipperDevice.refresh_status up to its first await: it queries klippy
\* only when the state is unknown and klippy is not in shutdown
KlipperRefresh(X, ok) ==
    IF X.D.is_shutdown \/ X.D.state \in {"on", "off", "init"}
    THEN Decide(X, ok)
    ELSE [X EXCEPT !.T.pc = "refresh"]

\* MQTTDevice.refresh_status up to its first await: it queries the device
\* when there is a query topic and the state is unknown or must be queried
MqttRefresh(X, ok) ==
    IF X.D.query_topic /\ (X.D.must_query \/ X.D.state \notin {"on", "off"})
    THEN IF ~X.D.mqtt_connected
         THEN Raise(X, "not_connected")
         ELSE [X EXCEPT !.T.pc = "refresh"]
    ELSE Decide(X, ok)

\* the coroutine has taken the request lock: process_request goes on to
\* the refresh, _notify_external_change to the notification
EnterBody(X, ok) ==
    LET X1 == [X EXCEPT !.D.request_lock.locked = TRUE, !.T.acquired = TRUE,
                        !.T.base_state = X.D.state]
    IN IF X.T.coro = "_notify_external_change" THEN external_change(X1)
       ELSE CASE X.D.type = "http" -> [X1 EXCEPT !.T.pc = "refresh"]
              [] X.D.type = "klipper" -> KlipperRefresh(X1, ok)
              [] X.D.type = "mqtt" -> MqttRefresh(X1, ok)
              [] OTHER -> Decide(X1, ok)

\* the context of task t, and writing a context back
Ctx(t) ==
    [D |-> devices[tasks[t].dev], L |-> delay_callbacks[tasks[t].dev], T |-> tasks[t]]

\* pcs of a coroutine that has returned, raised or been cancelled
EndPcs == {"done", "failed", "cancelled"}

\* process_request has ended in the poll loop that awaited it
\* (_poll_device): a CancelledError breaks the loop and the task ends, any
\* other end is followed by the sleep
resume_poll_device(X, t) ==
    IF X.T.pc \in EndPcs /\ X.D.poller = "requesting" /\ X.D.poll_slot = t
    THEN [X EXCEPT !.D.poller = IF X.T.pc = "cancelled" THEN "none" ELSE "sleeping",
                   !.D.poll_slot = 0,
                   !.D.sleep_until = IF X.T.pc = "cancelled" THEN @
                                     ELSE loop_time + X.D.poll_interval]
    ELSE X

Commit(t, X) ==
    /\ X.L.auto <= MaxTimers
    /\ devices' = [devices EXCEPT ![X.T.dev] = resume_poll_device(X, t).D]
    /\ delay_callbacks' = [delay_callbacks EXCEPT ![X.T.dev] = X.L]
    /\ IF X.T.pc \in EndPcs
       THEN /\ tasks' = [tasks EXCEPT ![t] = IdleTask]
            /\ last' = [op |-> "ended", task |-> X.T]
       ELSE /\ tasks' = [tasks EXCEPT ![t] = X.T]
            /\ last' = NoEvent

\* pcs at which a coroutine is inside the locked body of process_request
BodyPcs == {"refresh", "set_power", "services"}

\* ------------------------------------------------------------ the registry
\* str.lower() on the spellings a caller may send
Lower(s) ==
    CASE s \in {"ON", "On"} -> "on"
      [] s \in {"OFF", "Off"} -> "off"
      [] s \in {"TRUE", "True"} -> "true"
      [] s \in {"FALSE", "False"} -> "false"
      [] s \in {"TOGGLE", "Toggle"} -> "toggle"
      [] OTHER -> s

\* the two kinds of value set_device_power accepts for its state argument
Bool(b) == [kind |-> "bool", val |-> b]
Str(s) == [kind |-> "str", val |-> s]

\* the state arguments that callers of set_device_power send in the model
PowerArgs == {Bool(TRUE), Str("OFF"), Str("toggle")}

\* (mutant of NormaliseState: the string is compared as it was sent)
NormaliseStateExact(state) ==
    IF state.kind = "bool"
    THEN (IF state.val THEN "on" ELSE "off")
    ELSE IF state.val \in {"true", "false"}
         THEN (IF state.val = "true" THEN "on" ELSE "off")
         ELSE state.val

\* set_device_power, the normalisation of its state argument
NormaliseState(state) ==
    IF state.kind = "bool"
    THEN (IF state.val THEN "on" ELSE "off")
    ELSE LET request == Lower(state.val)
         IN IF request \in {"true", "false"}
            THEN (IF request = "true" THEN "on" ELSE "off")
            ELSE request

\* the lowest task slot that holds no coroutine (0 when there is none)
FreeSlot(ts) ==
    IF \E t \in TaskIds : ts[t].pc = "idle"
    THEN CHOOSE t \in TaskIds :
            ts[t].pc = "idle" /\ \A u \in TaskIds : ts[u].pc = "idle" => t <= u
    ELSE 0

\* a coroutine process_request(req, force) of device d handed to the event
\* loop: it has not run yet
NewTask(d, req, force) ==
    [IdleTask EXCEPT !.pc = "start", !.coro = "process_request", !.dev = d,
                     !.req = req, !.force = force]

\* event_loop.register_callback(self.devices[device].process_request, ...);
\* G = [devices, delay_callbacks, tasks, full], full = the task bound was hit
register_callback(G, d, req, force) ==
    IF FreeSlot(G.tasks) = 0 THEN [G EXCEPT !.full = TRUE]
    ELSE [G EXCEPT !.tasks[FreeSlot(G.tasks)] = NewTask(d, req, force)]

\* (mutant of set_device_power: the normalised request is not validated)
set_device_power_unchecked(G, device, state, force) ==
    IF device \notin DOMAIN G.devices THEN G
    ELSE register_callback(G, device, NormaliseState(state), force)

\* PrinterPower.set_device_power(device, state, force)
set_device_power(G, device, state, force) ==
    LET request == NormaliseState(state)
    IN IF request \notin {"on", "off", "toggle"} THEN G
       ELSE IF device \notin DOMAIN G.devices THEN G
       ELSE register_callback(G, device, request, force)

\* (mutant of StillShutdown: the condition is not checked again)
NoRecheck == TRUE

\* `kconn.state != KlippyState.SHUTDOWN` negated: still in shutdown
StillShutdown == KlippyState = "shutdown"

\* PowerDevice._power_off_on_shutdown
power_off_on_shutdown(G, d) ==
    IF ~StillShutdown THEN G
    ELSE set_device_power(G, d, Str("off"), FALSE)

\* (mutant of cancel_shutdown_timer: the armed timer is left armed)
keep_shutdown_timer(G, d) == G

\* `if self.shutdown_timer_handle is not None: cancel(); ... = None`
cancel_shutdown_timer(G, d) ==
    IF G.devices[d].shutdown_timer_handle = "armed"
    THEN [G EXCEPT !.devices[d].shutdown_timer_handle = "none",
                   !.delay_callbacks[d].shutdown = @ - 1]
    ELSE [G EXCEPT !.devices[d].shutdown_timer_handle = "none"]

\* eventloop.create_task(self._notify_external_change()): the coroutine
\* is handed to the event loop and has not run yet
create_task(G, d) ==
    IF FreeSlot(G.tasks) = 0 THEN [G EXCEPT !.full = TRUE]
    ELSE [G EXCEPT !.tasks[FreeSlot(G.tasks)] =
                [IdleTask EXCEPT !.pc = "start",
                                 !.coro = "_notify_external_change", !.dev = d]]

\* (mutant of set_state: the external change is notified whether or not a
\* request holds the lock)
set_state_in_request(G, d, state) ==
    LET D == G.devices[d]
        G1 == [G EXCEPT !.devices[d].state = state,
                        !.devices[d].last_update_time = loop_time]
    IN IF D.state \notin {state, "init"}
       THEN create_task(G1, d)
       ELSE G1

\* KlipperDevice._set_state(state): an external change is notified when
\* the state changed from a known one and no request holds the lock
set_state(G, d, state) ==
    LET D == G.devices[d]
        G1 == [G EXCEPT !.devices[d].state = state,
                        !.devices[d].last_update_time = loop_time]
    IN IF D.state \notin {state, "init"} /\ ~D.request_lock.locked
       THEN create_task(G1, d)
       ELSE G1

\* KlipperDevice._reset_timer
reset_timer(G, d) ==
    IF G.devices[d].timer_handle = "armed"
    THEN [G EXCEPT !.devices[d].timer_handle = "none",
                   !.delay_callbacks[d].auto = @ - 1]
    ELSE [G EXCEPT !.devices[d].timer_handle = "none"]

\* (mutant of klipper_process_klippy_shutdown: the override does nothing,
\* as the base method does when off_when_shutdown is not set)
klipper_shutdown_ignored(G, d) == G

\* KlipperDevice.process_klippy_shutdown, which overrides the base method
klipper_process_klippy_shutdown(G, d) ==
    reset_timer(set_state([G EXCEPT !.devices[d].is_shutdown = TRUE], d, "error"), d)

\* process_klippy_shutdown of a device: KlipperDevice's override or
\* PowerDevice.process_klippy_shutdown
process_klippy_shutdown(G, d) ==
    IF G.devices[d].type = "klipper" THEN klipper_process_klippy_shutdown(G, d)
    ELSE IF ~G.devices[d].off_when_shutdown THEN G
    ELSE IF G.devices[d].off_when_shutdown_delay = 0
         THEN power_off_on_shutdown(G, d)
         ELSE LET G1 == cancel_shutdown_timer(G, d)
              IN [G1 EXCEPT !.devices[d].shutdown_timer_handle = "armed",
                            !.delay_callbacks[d].shutdown = @ + 1]

\* PrinterPower._handle_klippy_shutdown: every device, in dict order
RECURSIVE handle_klippy_shutdown(_, _)
handle_klippy_shutdown(G, i) ==
    IF i > Len(DeviceOrder) THEN G
    ELSE handle_klippy_shutdown(process_klippy_shutdown(G, DeviceOrder[i]), i + 1)

\* the registry and the event loop as one value, and writing it back
Globals ==
    [devices |-> devices, delay_callbacks |-> delay_callbacks, tasks |-> tasks,
     full |-> FALSE]

CommitGlobals(G) ==
    /\ ~G.full
    /\ \A d \in DOMAIN G.devices : G.delay_callbacks[d].shutdown <= MaxTimers
    /\ devices' = G.devices
    /\ delay_callbacks' = G.delay_callbacks
    /\ tasks' = G.tasks

\* ---------------------------------------------------------------- actions
\* (mutant of Initializing: the request always goes for the lock)
NeverInitializing(D) == FALSE

\* `self.state == "init" and self.request_lock.locked()`
Initializing(D) == D.state = "init" /\ D.request_lock.locked

\* (mutant of StartRequest: _notify_external_change does not take the
\* request lock before it runs its body)
StartRequestUnlocked(X, t, ok) ==
    IF X.T.coro = "_notify_external_change"
    THEN external_change([X EXCEPT !.T.acquired = TRUE, !.T.base_state = X.D.state])
    ELSE IF Initializing(X.D)
         THEN [X EXCEPT !.T.pc = "done", !.T.result = X.D.state]
         ELSE IF CanAcquire(X.D.request_lock)
              THEN EnterBody(X, ok)
              ELSE [X EXCEPT !.T.pc = "wait_lock",
                             !.D.request_lock.waiters = Append(@, t)]

\* process_request from its first line to its first await: the fast return
\* while initializing, else the lock is taken at once or the coroutine t
\* queues for it (_notify_external_change goes for the lock directly)
StartRequest(X, t, ok) ==
    IF X.T.coro = "process_request" /\ Initializing(X.D)
    THEN [X EXCEPT !.T.pc = "done", !.T.result = X.D.state]
    ELSE IF CanAcquire(X.D.request_lock)
         THEN EnterBody(X, ok)
         ELSE [X EXCEPT !.T.pc = "wait_lock",
                        !.D.request_lock.waiters = Append(@, t)]

\* a request handler (or another coroutine) awaits process_request(req) of
\* device d: the coroutine starts running at once, force has its default
Request(d, req, ok) ==
    /\ FreeSlot(tasks) # 0
    /\ Commit(FreeSlot(tasks),
              StartRequest([D |-> devices[d], L |-> delay_callbacks[d],
                            T |-> NewTask(d, req, FALSE)], FreeSlot(tasks), ok))
    /\ UNCHANGED <<klippy, loop_time>>

\* the remote method set_device_power is called
SetDevicePower(device, state, force) ==
    /\ CommitGlobals(set_device_power(Globals, device, state, force))
    /\ tasks' # tasks
    /\ last' = NoEvent
    /\ UNCHANGED <<klippy, loop_time>>

\* a process_request handed to the event loop by register_callback starts
Begin(t, ok) ==
    /\ tasks[t].pc = "start"
    /\ Commit(t, StartRequest(Ctx(t), t, ok))
    /\ UNCHANGED <<klippy, loop_time>>

\* the released lock wakes its first waiter, which takes it
LockGranted(t, ok) ==
    /\ tasks[t].pc = "wait_lock"
    /\ LET X == Ctx(t)
       IN /\ ~X.D.request_lock.locked
          /\ X.D.request_lock.waiters # <<>>
          /\ Head(X.D.request_lock.waiters) = t
          /\ Commit(t, EnterBody([X EXCEPT !.D.request_lock.waiters = Tail(@)], ok))
    /\ UNCHANGED <<klippy, loop_time>>

\* HTTPDevice.refresh_status ends: the status request returned a state or
\* raised (result = "error")
HttpRefresh(X, result) == [X EXCEPT !.D.state = result]

\* the refresh_status of any driver ends.  KlipperDevice.refresh_status:
\* the query returned valid data (_set_state stores it and the time) or
\* not (result = "error"); MQTTDevice.refresh_status: the device answered
\* on the state topic (_on_state_update stores the state and the time) or
\* the wait timed out or failed (result = "error")
RefreshEnds(X, result) ==
    IF result = "error"
    THEN [HttpRefresh(X, result) EXCEPT !.T.refresh_failed = TRUE]
    ELSE IF X.D.type \in {"klipper", "mqtt"}
         THEN record_update_time(HttpRefresh(X, result))
         ELSE HttpRefresh(X, result)

RefreshDone(t, result) ==
    /\ tasks[t].pc = "refresh"
    /\ Commit(t, Decide(RefreshEnds(Ctx(t), result), TRUE))
    /\ UNCHANGED <<klippy, loop_time>>

\* HTTPDevice.set_power ends: the power request returned a state or raised
\* (result = "fail")
HttpSetPower(X, result) ==
    IF result = "fail"
    THEN [X EXCEPT !.D.state = "error", !.T.error = "set_power",
                   !.T.set_result = "fail"]
    ELSE [X EXCEPT !.D.state = result, !.T.set_result = result]

\* the set_power of any driver ends.  KlipperDevice.set_power: the status
\* update arrived in time (_set_state stores it and the time, the timer
\* is checked) or the gcode failed or the wait timed out ("fail");
\* MQTTDevice.set_power: the device reported its state or the wait failed
SetPowerEnds(X, result) ==
    IF X.D.type = "klipper" /\ result # "fail"
    THEN check_timer(record_update_time(HttpSetPower(X, result)))
    ELSE IF X.D.type = "mqtt" /\ result # "fail"
         THEN record_update_time(HttpSetPower(X, result))
         ELSE HttpSetPower(X, result)

SetPowerDone(t, result) ==
    /\ tasks[t].pc = "set_power"
    /\ Commit(t, AfterSetPower(SetPowerEnds(Ctx(t), result)))
    /\ UNCHANGED <<klippy, loop_time>>

\* (mutant of ServiceStep: the exception of a service action is not
\* caught, it leaves process_request)
ServiceStepAbort(X, ok) ==
    LET X1 == [X EXCEPT !.T.svc_log = Append(@,
                   [action |-> X.T.action, svc |-> X.D.bound_services[X.T.svc_idx]]),
                        !.T.svc_errors = IF ok THEN @ ELSE @ + 1]
    IN IF ~ok THEN Raise(X1, "service")
       ELSE IF X.T.svc_idx < Len(X.D.bound_services)
            THEN [X1 EXCEPT !.T.svc_idx = @ + 1]
            ELSE Return(power_changed_restart(X1))

\* process_bound_services: one do_service_action ends (ok) or raises, the
\* error is logged and the loop goes on; after the last service
\* process_power_changed runs to its end
ServiceStep(X, ok) ==
    LET X1 == [X EXCEPT !.T.svc_log = Append(@,
                   [action |-> X.T.action, svc |-> X.D.bound_services[X.T.svc_idx]]),
                        !.T.svc_errors = IF ok THEN @ ELSE @ + 1]
    IN IF X.T.svc_idx < Len(X.D.bound_services)
       THEN [X1 EXCEPT !.T.svc_idx = @ + 1]
       ELSE Return(power_changed_restart(X1))

ServiceActionDone(t, ok) ==
    /\ tasks[t].pc = "services"
    /\ Commit(t, ServiceStep(Ctx(t), ok))
    /\ UNCHANGED <<klippy, loop_time>>

\* the task of a request is cancelled at the await it is suspended in
\* (the locals of the coroutine are gone: what is left of it is that it
\* was cancelled, and whether it had taken the lock)
Cancelled(T) ==
    [IdleTask EXCEPT !.pc = "cancelled", !.coro = T.coro, !.dev = T.dev,
                     !.acquired = T.acquired]

CancelTask(X, t) ==
    IF X.T.pc = "wait_lock"
    THEN [X EXCEPT !.T = Cancelled(X.T),
                   !.D.request_lock.waiters = SelectSeq(@, LAMBDA u : u # t)]
    ELSE ExitRequest([X EXCEPT !.T = Cancelled(X.T)])

Cancel(t) ==
    /\ tasks[t].pc \in BodyPcs \cup {"wait_lock"}
    /\ Commit(t, CancelTask(Ctx(t), t))
    /\ UNCHANGED <<klippy, loop_time>>

\* the supervised hardware changes what it reports
KlippyChange(s) ==
    /\ s # klippy
    /\ klippy' = s
    /\ last' = NoEvent
    /\ UNCHANGED <<devices, delay_callbacks, tasks, loop_time>>

\* the event loop dispatches a server:klippy_shutdown event.  The event is
\* sent when klippy enters shutdown and its handlers run in a later turn of
\* the loop, when klippy may have left shutdown again (KlippyChange), so
\* the handler can run in every klippy state.  `last` records the devices
\* whose shutdown timer was armed when the event arrived.
HandleKlippyShutdown ==
    /\ CommitGlobals(handle_klippy_shutdown(Globals, 1))
    /\ last' = IF \E d \in Devices : devices[d].shutdown_timer_handle = "armed"
               THEN [op |-> "klippy_shutdown",
                     armed |-> {d \in Devices : devices[d].shutdown_timer_handle = "armed"}]
               ELSE NoEvent
    /\ UNCHANGED <<klippy, loop_time>>

\* an event of the environment was handled for device d, whose state was
\* `was` before
Event(name, d) ==
    [op |-> "event", name |-> name, dev |-> d, was |-> devices[d].state]

\* KlipperDevice._handle_disconnect, the handler of
\* server:klippy_disconnect (it has no await)
handle_disconnect(G, d) ==
    reset_timer(set_state([G EXCEPT !.devices[d].is_shutdown = FALSE], d, "init"), d)

KlippyDisconnect(d) ==
    /\ devices[d].type = "klipper"
    /\ CommitGlobals(handle_disconnect(Globals, d))
    /\ last' = Event("klippy_disconnect", d)
    /\ UNCHANGED <<klippy, loop_time>>

\* KlipperDevice._handle_ready from the return of subscribe_objects:
\* data = the power state in the answer, or "invalid".  With valid data
\* the rest runs under the request lock without an await (initial_state
\* is not set): _set_state sees the lock held
handle_ready(G, d, data) ==
    IF data = "invalid"
    THEN [G EXCEPT !.devices[d].state = "error"]
    ELSE [G EXCEPT !.devices[d].state = data,
                   !.devices[d].last_update_time = loop_time]

\* server:klippy_ready is handled: the subscription answers; with valid
\* data the handler runs on when it gets the request lock
KlippyReady(d, data) ==
    /\ devices[d].type = "klipper"
    /\ data = "invalid" \/ CanAcquire(devices[d].request_lock)
    /\ CommitGlobals(handle_ready(Globals, d, data))
    /\ last' = Event("klippy_ready", d)
    /\ UNCHANGED <<klippy, loop_time>>

\* KlipperDevice._status_update: klippy pushes the state of the object
\* outside a set_power (update_fut is None; the update a set_power waits
\* for is SetPowerDone)
StatusUpdate(d, state) ==
    /\ devices[d].type = "klipper"
    /\ \A t \in TaskIds : ~(tasks[t].dev = d /\ tasks[t].pc = "set_power")
    /\ CommitGlobals(set_state(Globals, d, state))
    /\ last' = Event("status_update", d)
    /\ UNCHANGED <<klippy, loop_time>>

\* (mutant of MqttConnection: a lost connection marks the device 'error'
\* at once, without waiting for the request lock)
MqttConnectionMarks(d, up) ==
    /\ devices[d].type = "mqtt"
    /\ devices[d].mqtt_connected # up
    /\ devices' = [devices EXCEPT
            ![d].mqtt_connected = up,
            ![d].state = IF up THEN @ ELSE "error",
            ![d].pending = @ \cup {IF up THEN "connected" ELSE "disconnected"}]
    /\ last' = NoEvent
    /\ UNCHANGED <<delay_callbacks, tasks, klippy, loop_time>>

\* the MQTT client connects or loses its connection: is_connected()
\* changes and the event is sent; its handler runs in a later turn
MqttConnection(d, up) ==
    /\ devices[d].type = "mqtt"
    /\ devices[d].mqtt_connected # up
    /\ devices' = [devices EXCEPT
            ![d].mqtt_connected = up,
            ![d].pending = @ \cup {IF up THEN "connected" ELSE "disconnected"}]
    /\ last' = NoEvent
    /\ UNCHANGED <<delay_callbacks, tasks, klippy, loop_time>>

\* MQTTDevice._on_mqtt_connected from the lock to its first await: with a
\* known state it returns, else the state is "init" and it waits for a
\* state update, holding the lock; when the connection is lost again by
\* then it waits for nothing and leaves the state 'error'
on_mqtt_connected(D) ==
    IF D.state \in {"on", "off"}
    THEN [D EXCEPT !.pending = @ \ {"connected"}]
    ELSE IF ~D.mqtt_connected
         THEN [D EXCEPT !.pending = @ \ {"connected"}, !.state = "error"]
         ELSE [D EXCEPT !.pending = @ \ {"connected"}, !.state = "init",
                        !.request_lock.locked = TRUE, !.running = "connected"]

OnMqttConnected(d) ==
    /\ "connected" \in devices[d].pending
    /\ CanAcquire(devices[d].request_lock)
    /\ devices' = [devices EXCEPT ![d] = on_mqtt_connected(devices[d])]
    /\ last' = Event("mqtt_connected", d)
    /\ UNCHANGED <<delay_callbacks, tasks, klippy, loop_time>>

\* the wait of _on_mqtt_connected ends: the device reported its state
\* (_on_state_update stores it and the time) or the wait failed or timed
\* out for good (result = "error"); the lock is released
on_mqtt_connected_done(D, result) ==
    [D EXCEPT !.state = result,
              !.last_update_time = IF result = "error" THEN @ ELSE loop_time,
              !.request_lock.locked = FALSE, !.running = "none"]

OnMqttConnectedDone(d, result) ==
    /\ devices[d].running = "connected"
    /\ devices' = [devices EXCEPT ![d] = on_mqtt_connected_done(devices[d], result)]
    /\ last' = Event("mqtt_initialized", d)
    /\ UNCHANGED <<delay_callbacks, tasks, klippy, loop_time>>

\* (mutant of on_mqtt_disconnected: the state is reset to 'init', as
\* KlipperDevice does on a disconnect)
on_mqtt_disconnected_init(D) ==
    [D EXCEPT !.pending = @ \ {"disconnected"}, !.state = "init"]

\* MQTTDevice._on_mqtt_disconnected once it has the lock
on_mqtt_disconnected(D) ==
    [D EXCEPT !.pending = @ \ {"disconnected"}, !.state = "error"]

OnMqttDisconnected(d) ==
    /\ "disconnected" \in devices[d].pending
    /\ CanAcquire(devices[d].request_lock)
    /\ devices' = [devices EXCEPT ![d] = on_mqtt_disconnected(devices[d])]
    /\ last' = Event("mqtt_disconnected", d)
    /\ UNCHANGED <<delay_callbacks, tasks, klippy, loop_time>>

\* MQTTDevice._on_state_update when no coroutine waits for the answer
\* (query_response is None): payload = the rendered state or "invalid"
on_state_update(G, d, payload) ==
    LET D == G.devices[d]
        state == IF payload \in {"on", "off"} THEN payload ELSE "error"
        G1 == [G EXCEPT !.devices[d].state = state,
                        !.devices[d].last_update_time = loop_time]
    IN IF ~D.request_lock.locked /\ D.state # state
       THEN create_task(G1, d)
       ELSE G1

OnStateUpdate(d, payload) ==
    /\ devices[d].type = "mqtt"
    /\ devices[d].mqtt_connected
    /\ devices[d].running = "none"
    /\ \A t \in TaskIds :
            ~(tasks[t].dev = d /\ tasks[t].pc \in {"refresh", "set_power"})
    /\ CommitGlobals(on_state_update(Globals, d, payload))
    /\ last' = Event("state_update", d)
    /\ UNCHANGED <<klippy, loop_time>>

\* the states a server:klippy_started event can carry: klippy has left
\* startup
StartedStates == {s \in KlippyValues \ {"printing"} : startup_complete(s)}

\* the handler of server:klippy_started of one device (registered in
\* __init__ when restart_klipper_when_powered is set), run outside any
\* request: T counts the restarts it schedules
klippy_started(D, L, state) ==
    IF D.klipper_restart
    THEN schedule_firmware_restart([D |-> D, L |-> L, T |-> IdleTask], state)
    ELSE [D |-> D, L |-> L, T |-> IdleTask]

\* the event loop dispatches a server:klippy_started event carrying the
\* state klippy reported when it left startup.  `last` records the devices
\* whose restart was pending and the restarts each handler scheduled.
KlippyStarted(state) ==
    /\ \E R \in {[d \in DOMAIN devices |->
                    klippy_started(devices[d], delay_callbacks[d], state)]} :
            /\ devices' = [d \in DOMAIN devices |-> R[d].D]
            /\ last' = [op |-> "klippy_started", state |-> state,
                        pending |-> {d \in DOMAIN devices :
                                        devices[d].need_scheduled_restart},
                        restarts |-> [d \in DOMAIN devices |-> R[d].T.restarts]]
    /\ UNCHANGED <<delay_callbacks, tasks, klippy, loop_time>>

\* the loop time advances
Tick ==
    /\ loop_time < MaxTime
    /\ loop_time' = loop_time + 1
    /\ last' = NoEvent
    /\ UNCHANGED <<devices, delay_callbacks, tasks, klippy>>

\* a delayed callback fires: the one the handle refers to (the handle is
\* then spent) or one that the handle no longer refers to
FireShutdown(G, d, byHandle) ==
    [G EXCEPT !.delay_callbacks[d].shutdown = @ - 1,
              !.devices[d].shutdown_timer_handle = IF byHandle THEN "spent" ELSE @]

ShutdownTimerFire(d, byHandle) ==
    /\ IF byHandle THEN devices[d].shutdown_timer_handle = "armed"
       ELSE delay_callbacks[d].shutdown >
                (IF devices[d].shutdown_timer_handle = "armed" THEN 1 ELSE 0)
    /\ CommitGlobals(power_off_on_shutdown(FireShutdown(Globals, d, byHandle), d))
    /\ last' = [op |-> "shutdown_timer", dev |-> d]
    /\ UNCHANGED <<klippy, loop_time>>

FireAuto(G, d, byHandle) ==
    [G EXCEPT !.delay_callbacks[d].auto = @ - 1,
              !.devices[d].timer_handle = IF byHandle THEN "spent" ELSE @]

\* the auto-off timer fires: power.set_device_power(self.name, "off")
AutoTimerFire(d, byHandle) ==
    /\ IF byHandle THEN devices[d].timer_handle = "armed"
       ELSE delay_callbacks[d].auto >
                (IF devices[d].timer_handle = "armed" THEN 1 ELSE 0)
    /\ CommitGlobals(set_device_power(FireAuto(Globals, d, byHandle), d, Str("off"), FALSE))
    /\ last' = [op |-> "auto_timer", dev |-> d]
    /\ UNCHANGED <<klippy, loop_time>>

\* the outcomes of the pin write (or code transmission) of a GPIO or RF
\* set_power that starts in this step: it succeeds or raises; an HTTP
\* set_power reports its outcome in a later step
WriteOutcomes(d) == IF devices[d].type = "http" THEN {TRUE} ELSE BOOLEAN

RequestStep ==
    \/ \E d \in Devices, req \in Requests :
            \E ok \in WriteOutcomes(d) : Request(d, req, ok)
    \/ \E d \in Devices, state \in PowerArgs, force \in BOOLEAN :
            SetDevicePower(d, state, force)
    \/ \E t \in TaskIds, ok \in BOOLEAN : Begin(t, ok)
    \/ \E t \in TaskIds, ok \in BOOLEAN : LockGranted(t, ok)
    \/ \E t \in TaskIds, result \in {"on", "off", "error"} : RefreshDone(t, result)
    \/ \E t \in TaskIds, result \in {"on", "off", "fail"} : SetPowerDone(t, result)
    \/ \E t \in TaskIds : Cancel(t)
    \/ \E s \in KlippyValues : KlippyChange(s)
    \/ HandleKlippyShutdown

\* the request engine: devices with bound services, no timers
Next ==
    \/ RequestStep
    \/ \E t \in TaskIds, ok \in BOOLEAN : ServiceActionDone(t, ok)

Spec == Init /\ [][Next]_vars

\* the restart of klippy: requests that switch a device, klippy leaving
\* startup and the server:klippy_started events
NextRestart ==
    \/ \E d \in Devices, req \in {"status", "on", "off"} : Request(d, req, TRUE)
    \/ \E t \in TaskIds : LockGranted(t, TRUE)
    \/ \E t \in TaskIds, result \in {"on", "off"} : RefreshDone(t, result)
    \/ \E t \in TaskIds, result \in {"on", "off", "fail"} : SetPowerDone(t, result)
    \/ \E t \in TaskIds : ServiceActionDone(t, TRUE)
    \/ \E s \in KlippyValues : KlippyChange(s)
    \/ \E state \in StartedStates : KlippyStarted(state)

SpecRestart == Init /\ [][NextRestart]_vars

\* the timers: devices with a shutdown delay or an auto-off timer
InitTimers ==
    /\ devices \in {[d \in Devices |-> PowerDevice(c[d])] : c \in [Devices -> TimerConfigs]}
    /\ delay_callbacks = [d \in Devices |-> [auto |-> 0, shutdown |-> 0]]
    /\ tasks = [t \in TaskIds |-> IdleTask]
    /\ klippy = "startup"
    /\ last = NoEvent
    /\ loop_time = 0

NextTimers ==
    \/ RequestStep
    \/ \E d \in Devices, byHandle \in BOOLEAN : ShutdownTimerFire(d, byHandle)
    \/ \E d \in Devices, byHandle \in BOOLEAN : AutoTimerFire(d, byHandle)

SpecTimers == InitTimers /\ [][NextTimers]_vars

\* ------------------------------------------------------------- properties
\* the tasks inside the locked body of process_request of device d
InBody(d) == {t \in TaskIds : tasks[t].pc \in BodyPcs /\ tasks[t].dev = d}

\* the latest step ended a request: it returned or raised (not cancelled)
Ended == last.op = "ended" /\ last.task.pc \in {"done", "failed"}

\* C1: for every device, at most one task is inside the locked body of
\* process_request at any instant.
C1_MutualExclusion == \A d \in Devices : Cardinality(InBody(d)) <= 1

\* C1 witness: one request is inside the body while another one queues
\* for the lock of the same device.
C1_Witness ==
    \E t, u \in TaskIds :
        /\ tasks[t].pc \in BodyPcs
        /\ tasks[u].pc = "wait_lock"
        /\ tasks[u].dev = tasks[t].dev

\* C2: when a process_request that took the lock ends in any way (return,
\* error, cancellation) the lock is free in the state it leaves, and the
\* lock is never held without a task inside the body holding it.
C2_LockReleased ==
    /\ (last.op = "ended" /\ last.task.acquired)
            => ~devices[last.task.dev].request_lock.locked
    /\ \A d \in Devices : devices[d].request_lock.locked => InBody(d) # {}

\* C2 witness: a request that held the lock was cancelled while another
\* request waits for the lock.
C2_Witness ==
    /\ last.op = "ended"
    /\ last.task.pc = "cancelled"
    /\ last.task.acquired
    /\ devices[last.task.dev].request_lock.waiters # <<>>

\* the request the latest step ended, and its device
E == last.task
ED == devices[last.task.dev]

\* the case of C3: an on/off request without force on a device locked
\* while printing, with a print active when the request was decided
C3_Case ==
    /\ Ended
    /\ E.acquired
    /\ E.req \in {"on", "off"}
    /\ ~E.force
    /\ ED.locked_while_printing
    /\ E.printing

\* C3 as stated: every such request fails with the printing error and
\* does not change the device's state (it stays what the refresh found).
C3_Original ==
    C3_Case => /\ E.pc = "failed"
               /\ E.error = "printing"
               /\ ED.state = E.refreshed

\* C3 amended: such a request whose value differs from the state stored by
\* the refresh fails with the printing error, set_power is not invoked, no
\* notification is sent and the state stays the one the refresh stored;
\* a request equal to the refreshed state returns that state, no error.
C3_PrintingLock ==
    C3_Case =>
        IF E.req # E.refreshed
        THEN /\ E.pc = "failed"
             /\ E.error = "printing"
             /\ E.set_arg = "none"
             /\ E.notified = 0
             /\ ED.state = E.refreshed
        ELSE /\ E.pc = "done"
             /\ E.result = E.refreshed
             /\ E.set_arg = "none"

\* C3 witness: a request was rejected by the printing lock after its
\* refresh had changed the stored state.
C3_Witness ==
    /\ C3_Case
    /\ E.error = "printing"
    /\ E.base_state = "on"
    /\ E.refreshed = "off"

\* the case of C4: as C3, with force = true
C4_Case ==
    /\ Ended
    /\ E.acquired
    /\ E.req \in {"on", "off"}
    /\ E.force
    /\ ED.locked_while_printing
    /\ E.printing

\* the state a driver outcome leaves in PowerDevice.state
Reported(set_result) == IF set_result = "fail" THEN "error" ELSE set_result

Opposite(state) == IF state = "off" THEN "on" ELSE "off"

\* C5: a toggle is resolved against the state stored when the refresh of
\* the same request ended: on when that state is off, off otherwise.
C5_ToggleRefreshed ==
    /\ \A t \in TaskIds :
            (tasks[t].req = "toggle" /\ tasks[t].request # "none")
                => tasks[t].request = Opposite(tasks[t].refreshed)
    /\ (Ended /\ E.req = "toggle" /\ E.request # "none")
            => E.request = Opposite(E.refreshed)

\* C5 witness: a toggle whose refresh changed the stored state from off to
\* on was resolved to off and is awaiting set_power("off").
C5_Witness ==
    \E t \in TaskIds :
        /\ tasks[t].req = "toggle"
        /\ tasks[t].base_state = "off"
        /\ tasks[t].refreshed = "on"
        /\ tasks[t].pc = "set_power"
        /\ tasks[t].set_arg = "off"

\* the refresh of the ended request showed a change and no transition was
\* needed: a status request, or an on/off request equal to the new state
NoTransition ==
    /\ Ended
    /\ E.acquired
    /\ E.base_state # E.refreshed
    /\ (E.request = "status" \/ E.request = E.refreshed)

\* C6: with restrict_actions, an external change seen by a request that
\* needs no transition sends exactly one power:power_changed and performs
\* no service action and no restart scheduling.
C6_NotifyOnly ==
    (NoTransition /\ ED.restrict_actions) =>
        /\ E.pc = "done"
        /\ E.notified = 1
        /\ E.svc_log = <<>>
        /\ ~E.restart_armed
        /\ E.restarts = 0
        /\ E.set_arg = "none"

\* C6 witness: the device has bound services and restart-on-power, the
\* refresh showed off -> on while klippy is in shutdown (so full side
\* effects would have started services and scheduled a restart).
C6_Witness ==
    /\ NoTransition
    /\ ED.restrict_actions
    /\ ED.bound_services # <<>>
    /\ ED.klipper_restart
    /\ E.base_state = "off"
    /\ E.refreshed = "on"
    /\ klippy = "shutdown"
    /\ E.notified = 1

\* the service actions of one run of process_bound_services
Actions(action, services) ==
    [i \in 1..Len(services) |-> [action |-> action, svc |-> services[i]]]

\* the case of C7: the refresh of a supported request showed on -> off on
\* a device without restrict_actions
C7_Case ==
    /\ Ended
    /\ E.acquired
    /\ E.req \in {"status", "on", "off", "toggle"}
    /\ E.base_state = "on"
    /\ E.refreshed = "off"
    /\ ~ED.restrict_actions

\* C7 as stated: every such request stops each bound service and sends
\* the notification.
C7_Original ==
    C7_Case => /\ E.svc_log = Actions("stop", ED.bound_services)
               /\ E.notified >= 1

\* C7 amended: when moreover no transition is needed (a status or off
\* request), a stop action is performed for each bound service, in list
\* order, and one notification is sent.
C7_StopServices ==
    (C7_Case /\ E.request \in {"status", "off"}) =>
        /\ E.pc = "done"
        /\ E.svc_log = Actions("stop", ED.bound_services)
        /\ E.notified = 1
        /\ E.set_arg = "none"

\* C7 witness: a status request saw on -> off and stopped both services.
C7_Witness ==
    /\ C7_Case
    /\ E.req = "status"
    /\ Len(ED.bound_services) = 2
    /\ E.svc_log = Actions("stop", ED.bound_services)

\* C8: a shutdown-delay timer that expires when klippy has left shutdown
\* issues no off request (no request is registered, the device's state is
\* what it was), and the handler of the shutdown event issues none either
\* when klippy has left shutdown by the time it runs (zero-delay path).
C8_Recheck ==
    [][/\ (last'.op = "shutdown_timer" /\ klippy # "shutdown")
            => /\ tasks' = tasks
               /\ devices'[last'.dev].state = devices[last'.dev].state
       /\ (HandleKlippyShutdown /\ klippy # "shutdown")
            => tasks' = tasks]_vars

\* C8 witness: the delay of an on device expired after klippy had
\* recovered, and no request is pending or running.
C8_Witness ==
    /\ last.op = "shutdown_timer"
    /\ klippy = "ready"
    /\ devices[last.dev].off_when_shutdown_delay > 0
    /\ devices[last.dev].state = "on"
    /\ \A t \in TaskIds : tasks[t].pc = "idle"

\* C9 as stated (its last part): two auto-off timers are never armed at
\* once for one device.
C9_SingleAutoTimer ==
    \A d \in Devices : delay_callbacks[d].auto <= 1

\* C10: at most one shutdown-delay timer is armed per device, also right
\* after a shutdown event arrived while one was armed; the armed one is the
\* one shutdown_timer_handle refers to.
C10_SingleShutdownTimer ==
    \A d \in Devices :
        /\ delay_callbacks[d].shutdown <= 1
        /\ delay_callbacks[d].shutdown = 1
                => devices[d].shutdown_timer_handle = "armed"

\* C10 witness: a shutdown event arrived while the timer of a device was
\* armed, and one timer is armed now.
C10_Witness ==
    /\ last.op = "klippy_shutdown"
    /\ \E d \in last.armed :
            /\ delay_callbacks[d].shutdown = 1
            /\ devices[d].shutdown_timer_handle = "armed"

\* ------------------------------------------------------ the registry runs
\* Two GPIO devices are configured and component_init has created their
\* initializer tasks; a third name can be added by add_device.  A GPIO
\* process_request has no suspension point when the lock is free, so a
\* handler that awaits it runs to its end in one step.
GpioQueued ==
    [type |-> "gpio", locked_while_printing |-> TRUE,
     off_when_shutdown |-> FALSE, off_when_shutdown_delay |-> 0,
     klipper_restart |-> FALSE, bound_services |-> <<>>,
     restrict_actions |-> TRUE, timer |-> 0, on_when_queued |-> TRUE,
     poll_interval |-> 0]

GpioPlain ==
    [type |-> "gpio", locked_while_printing |-> FALSE,
     off_when_shutdown |-> FALSE, off_when_shutdown_delay |-> 0,
     klipper_restart |-> FALSE, bound_services |-> <<>>,
     restrict_actions |-> TRUE, timer |-> 0, on_when_queued |-> FALSE,
     poll_interval |-> 0]

RegistryConfigs == {GpioQueued, GpioPlain}

\* the names in the order the registry holds them (dict insertion order:
\* the configured sections first, then the name add_device may add), and a
\* name that is never registered
NameOrder == <<"a", "b", "c">>
ConfiguredNames == {"a", "b"}
UnknownName == "zz"

\* self.devices.keys(), in order
RegisteredOrder(devs) == SelectSeq(NameOrder, LAMBDA n : n \in DOMAIN devs)

\* PowerDevice.initialize for a device whose init_state is a coroutine:
\* the initializer task is created, the state is still what it was
initialize(D) == [D EXCEPT !.init_task = "pending"]

\* the spellings of the state argument of set_device_power
OnSpellings ==
    {Bool(TRUE), Str("on"), Str("ON"), Str("On"),
     Str("true"), Str("TRUE"), Str("True")}
OffSpellings ==
    {Bool(FALSE), Str("off"), Str("OFF"), Str("false"), Str("FALSE"), Str("False")}
ToggleSpellings == {Str("toggle"), Str("Toggle")}
InvalidSpellings == {Str("status"), Str("bogus"), Str("")}
StateArgs == OnSpellings \cup OffSpellings \cup ToggleSpellings \cup InvalidSpellings

InitRegistry ==
    /\ devices \in {[d \in ConfiguredNames |-> initialize(PowerDevice(c[d]))] :
                        c \in [ConfiguredNames -> RegistryConfigs]}
    /\ delay_callbacks = [d \in ConfiguredNames |-> [auto |-> 0, shutdown |-> 0]]
    /\ tasks = [t \in TaskIds |-> IdleTask]
    /\ klippy = "ready"
    /\ last = NoEvent
    /\ loop_time = 0

\* PowerDevice.start_polling
start_polling(D) ==
    IF D.poll_interval = 0 \/ D.poll_task # "none" THEN D
    ELSE [D EXCEPT !.poll_task = "set", !.poller = "sleeping",
                   !.sleep_until = loop_time]

\* the initializer ends and leaves `async with self.request_lock`.
\* HTTPDevice.init_state: notify_power_changed, the time is recorded,
\* start_polling, return; GpioDevice.init_state: the finally clause
\* records the time and the task is finished
init_state_ends(D) ==
    IF D.type = "http"
    THEN [start_polling([D EXCEPT !.init_log = @ \o <<"notify", "start_polling">>,
                                  !.last_update_time = loop_time])
            EXCEPT !.init_pc = "none", !.request_lock.locked = FALSE]
    ELSE [D EXCEPT !.init_task = "done", !.last_update_time = loop_time,
                   !.init_pc = "none", !.request_lock.locked = FALSE]

\* (mutant of init_bound_services: the initializer leaves the bound
\* services alone)
init_bound_services_skip(D) == init_state_ends(D)

\* `if self.bound_services: await self.process_bound_services()` of an
\* initializer: it awaits the action of the first service
init_bound_services(D) ==
    IF D.bound_services # <<>> /\ D.state \in {"on", "off"}
    THEN [D EXCEPT !.init_pc = "services", !.init_svc = 1]
    ELSE init_state_ends(D)

\* (mutant of set_initial_state: the lock is given up while the set_power
\* of the initial state is awaited)
set_initial_state_released(D) ==
    IF D.initial_state # "none" /\ D.state \in {"on", "off"}
    THEN IF D.initial_state # D.state
         THEN [D EXCEPT !.init_pc = "set_power",
                        !.init_log = Append(@, "set_power"),
                        !.request_lock.locked = FALSE]
         ELSE init_bound_services(D)
    ELSE init_state_ends(D)

\* PowerDevice._set_initial_state as HTTPDevice.init_state awaits it, up
\* to its first await: set_power(new_state) when the option is set and
\* differs from the state 'on' or 'off' just stored, else the services
set_initial_state(D) ==
    IF D.initial_state # "none" /\ D.state \in {"on", "off"}
    THEN IF D.initial_state # D.state
         THEN [D EXCEPT !.init_pc = "set_power",
                        !.init_log = Append(@, "set_power")]
         ELSE init_bound_services(D)
    ELSE init_state_ends(D)

\* GpioDevice.init_state, which has taken the request lock: set_power
\* ("off" with initial_state unset, else the state of the option and
\* then the bound services); an exception is logged, not raised
GpioInitState(X, ok) ==
    IF X.D.initial_state = "none"
    THEN LET X1 == GpioSetPower(X, "off", ok)
         IN [X1 EXCEPT !.D = init_state_ends(
                 [@ EXCEPT !.init_log = Append(@, "set_power")]),
                       !.T = IdleTask]
    ELSE LET X1 == GpioSetPower(X, X.D.initial_state, ok)
             D1 == [X1.D EXCEPT !.init_log = Append(@, "set_power")]
         IN [X1 EXCEPT !.D = IF ok THEN init_bound_services(D1)
                             ELSE init_state_ends(D1),
                       !.T = IdleTask]

\* the initializer task of device d runs
InitTaskRun(d, ok) ==
    /\ devices[d].type = "gpio"
    /\ devices[d].init_task = "pending"
    /\ CanAcquire(devices[d].request_lock)
    /\ LET X == GpioInitState(
                    [D |-> [devices[d] EXCEPT !.request_lock.locked = TRUE,
                                              !.init_task = "running"],
                     L |-> delay_callbacks[d], T |-> IdleTask], ok)
       IN /\ devices' = [devices EXCEPT ![d] = X.D]
          /\ delay_callbacks' = [delay_callbacks EXCEPT ![d] = X.L]
    /\ last' = NoEvent
    /\ UNCHANGED <<tasks, klippy, loop_time>>

\* a component calls the remote method set_device_power with any device
\* name and any spelling of the state
RemoteSetDevicePower(device, state, force) ==
    /\ CommitGlobals(set_device_power(Globals, device, state, force))
    /\ last' = [op |-> "set_device_power", device |-> device, state |-> state,
                force |-> force]
    /\ UNCHANGED <<klippy, loop_time>>

\* `await dev.process_request(req)` in a handler, for a device whose
\* process_request runs to its end without suspending: the registry after
\* the call and the coroutine's record (its result or its error)
await_process_request(G, d, req, ok) ==
    LET X == StartRequest([D |-> G.devices[d], L |-> G.delay_callbacks[d],
                           T |-> NewTask(d, req, FALSE)], 0, ok)
    IN [G |-> [G EXCEPT !.devices[d] = X.D, !.delay_callbacks[d] = X.L],
        T |-> X.T]

\* what a handler has done: R.G the registry, R.result the dict it will
\* return, R.error the exception that left it ("none": it returned),
\* R.called the devices whose process_request it awaited, in order
Handler(G) == [G |-> G, result |-> <<>>, error |-> "none", called |-> <<>>]

\* a handler awaits process_request without a try: an exception of the
\* request leaves the handler
await_in_handler(R, name, req, ok) ==
    LET P == await_process_request(R.G, name, req, ok)
        R1 == [R EXCEPT !.G = P.G, !.called = Append(@, name)]
    IN IF P.T.pc = "failed"
       THEN [R1 EXCEPT !.error = P.T.error]
       ELSE [R1 EXCEPT !.result = (name :> P.T.result) @@ @]

\* (mutant of batch_entry: a name that is not registered gets no entry)
batch_entry_known(R, name, req, ok) ==
    IF name \in DOMAIN R.G.devices
    THEN await_in_handler(R, name, req, ok)
    ELSE R

\* _handle_batch_power_request, the body of its loop for one name
batch_entry(R, name, req, ok) ==
    IF name \in DOMAIN R.G.devices
    THEN await_in_handler(R, name, req, ok)
    ELSE [R EXCEPT !.result = (name :> "device_not_found") @@ @]

\* _handle_batch_power_request, its loop from the i-th name on; fails =
\* the devices whose pin write raises
RECURSIVE batch_loop(_, _, _, _, _)
batch_loop(R, args, i, req, fails) ==
    IF i > Len(args) \/ R.error # "none" THEN R
    ELSE batch_loop(batch_entry(R, args[i], req, args[i] \notin fails),
                    args, i + 1, req, fails)

\* PrinterPower._handle_batch_power_request; args = the argument names in
\* the order of the request, req = the last segment of the endpoint
handle_batch_power_request(G, args, req, fails) ==
    IF args = <<>>
    THEN [Handler(G) EXCEPT !.error = "no_args"]
    ELSE batch_loop(Handler(G), args, 1, req, fails)

\* (mutant of ValidAction: every action of a write request is accepted)
AnyAction(action) == TRUE

\* `action not in ["on", "off", "toggle"]` negated
ValidAction(action) == action \in {"on", "off", "toggle"}

\* PrinterPower._handle_single_power_request
handle_single_power_request(G, dev_name, req_type, action, ok) ==
    IF dev_name \notin DOMAIN G.devices
    THEN [Handler(G) EXCEPT !.error = "no_device"]
    ELSE IF req_type = "GET"
         THEN await_in_handler(Handler(G), dev_name, "status", ok)
         ELSE IF ~ValidAction(Lower(action))
              THEN [Handler(G) EXCEPT !.error = "invalid_action"]
              ELSE await_in_handler(Handler(G), dev_name, Lower(action), ok)

\* PowerDevice.should_turn_on_when_queued
should_turn_on_when_queued(D) == D.on_when_queued

\* _handle_job_queued, its loop from the i-th device on
RECURSIVE job_queued_loop(_, _, _, _)
job_queued_loop(R, order, i, fails) ==
    IF i > Len(order) \/ R.error # "none" THEN R
    ELSE job_queued_loop(
            IF should_turn_on_when_queued(R.G.devices[order[i]])
            THEN await_in_handler(R, order[i], "on", order[i] \notin fails)
            ELSE R,
            order, i + 1, fails)

\* PrinterPower._handle_job_queued
handle_job_queued(G, action, fails) ==
    IF action # "jobs_added" THEN Handler(G)
    ELSE job_queued_loop(Handler(G), RegisteredOrder(G.devices), 1, fails)

\* sys_info['available_services'] and machine_cmp.unit_name
AvailableServices == {"svc1", "svc2"}
MoonrakerUnit == "moonraker"

\* PowerDevice._setup_bound_services: TRUE when it returns, FALSE when it
\* raises (a bound service is moonraker itself or is not available)
setup_bound_services(D) ==
    \A i \in 1..Len(D.bound_services) :
        /\ D.bound_services[i] # MoonrakerUnit
        /\ D.bound_services[i] \in AvailableServices

\* (mutant of add_device_register: the device is not registered)
add_device_drop(G, name, D) == G

\* `self.devices[name] = device`
add_device_register(G, name, D) ==
    [G EXCEPT !.devices = (name :> D) @@ @,
              !.delay_callbacks = (name :> [auto |-> 0, shutdown |-> 0]) @@ @]

\* PrinterPower.add_device(name, device); D = the fields of the device
add_device(G, name, D) ==
    IF name \in DOMAIN G.devices
    THEN [Handler(G) EXCEPT !.error = "already_configured"]
    ELSE IF ~setup_bound_services(D)
    THEN [Handler(G) EXCEPT !.error = "bound_service"]
    ELSE LET D1 == initialize(D)
             success == D1.state # "error"
         IN IF ~success
            THEN [Handler(G) EXCEPT !.result = "warning"]
            ELSE [Handler(add_device_register(G, name, D1)) EXCEPT !.result = "added"]

\* a batch request arrives at /machine/device_power/{status,on,off}
Batch(args, req, fails) ==
    \E R \in {handle_batch_power_request(Globals, args, req, fails)} :
       /\ CommitGlobals(R.G)
       /\ last' = [op |-> "batch", args |-> args, req |-> req,
                   result |-> R.result, error |-> R.error, called |-> R.called]
       /\ UNCHANGED <<klippy, loop_time>>

\* a request arrives at /machine/device_power/device
Single(dev_name, req_type, action, ok) ==
    \E R \in {handle_single_power_request(Globals, dev_name, req_type, action, ok)} :
       /\ CommitGlobals(R.G)
       /\ last' = [op |-> "single", device |-> dev_name, req_type |-> req_type,
                   action |-> action, result |-> R.result, error |-> R.error,
                   called |-> R.called]
       /\ UNCHANGED <<klippy, loop_time>>

\* the event job_queue:job_queue_changed is dispatched
JobQueued(action, fails) ==
    \E R \in {handle_job_queued(Globals, action, fails)} :
       /\ CommitGlobals(R.G)
       /\ last' = [op |-> "job_queued", action |-> action, error |-> R.error,
                   called |-> R.called, fails |-> fails]
       /\ UNCHANGED <<klippy, loop_time>>

\* a component calls add_device with a device it has constructed, whose
\* state is "init", or "error" when its construction went wrong
AddDevice(name, c, state) ==
    \E R \in {add_device(Globals, name, [PowerDevice(c) EXCEPT !.state = state])} :
       /\ CommitGlobals(R.G)
       /\ last' = [op |-> "add_device", name |-> name, state |-> state,
                   result |-> R.result, error |-> R.error]
       /\ UNCHANGED <<klippy, loop_time>>

\* the argument lists of the batch requests: up to MaxArgs distinct names
MaxArgs == 2
ArgNames == {"a", "b", UnknownName}
BatchArgs ==
    {<<>>} \cup
    UNION {{s \in [1..n -> ArgNames] : \A i, j \in 1..n : i # j => s[i] # s[j]} :
                n \in 1..MaxArgs}

\* the remote method: calls of set_device_power and the requests they
\* start, with one device configured
InitRemote ==
    /\ devices = [d \in {"a"} |-> initialize(PowerDevice(GpioPlain))]
    /\ delay_callbacks = [d \in {"a"} |-> [auto |-> 0, shutdown |-> 0]]
    /\ tasks = [t \in TaskIds |-> IdleTask]
    /\ klippy = "ready"
    /\ last = NoEvent
    /\ loop_time = 0

NextRemote ==
    \/ \E d \in DOMAIN devices, ok \in BOOLEAN : InitTaskRun(d, ok)
    \/ \E device \in {"a", UnknownName}, state \in StateArgs, force \in BOOLEAN :
            RemoteSetDevicePower(device, state, force)
    \/ \E t \in TaskIds, ok \in BOOLEAN : Begin(t, ok)

SpecRemote == InitRemote /\ [][NextRemote]_vars

\* the HTTP endpoints and the job queue event, with two devices configured
NextRegistry ==
    \/ \E d \in DOMAIN devices, ok \in BOOLEAN : InitTaskRun(d, ok)
    \/ \E args \in BatchArgs, req \in {"status", "on", "off"},
          fails \in {{}, {"a"}, {"b"}} : Batch(args, req, fails)
    \/ \E dev_name \in {"a", UnknownName}, req_type \in {"GET", "POST"},
          action \in {"on", "OFF", "Toggle", "status", "bogus"}, ok \in BOOLEAN :
            Single(dev_name, req_type, action, ok)
    \/ \E action \in {"jobs_added", "jobs_removed"},
          fails \in {{}, {"a"}, {"b"}} : JobQueued(action, fails)
    \/ \E s \in {"ready", "printing"} : KlippyChange(s)

SpecRegistry == InitRegistry /\ [][NextRegistry]_vars

\* add_device: one device configured, components add devices and requests
\* reach the registered ones
NextAdd ==
    \/ \E d \in DOMAIN devices, ok \in BOOLEAN : InitTaskRun(d, ok)
    \/ \E name \in {"a", "c"}, c \in RegistryConfigs, state \in {"init", "error"} :
            AddDevice(name, c, state)
    \/ \E dev_name \in {"a", "c"}, action \in {"on", "off"}, ok \in BOOLEAN :
            Single(dev_name, "POST", action, ok)

SpecAdd == InitRemote /\ [][NextAdd]_vars

\* ------------------------------------------------------------ the loading
\* a GPIO section whose bound service does not exist on the machine
GpioUnbound ==
    [type |-> "gpio", locked_while_printing |-> FALSE,
     off_when_shutdown |-> FALSE, off_when_shutdown_delay |-> 0,
     klipper_restart |-> FALSE, bound_services |-> <<"nosvc">>,
     restrict_actions |-> TRUE, timer |-> 0, on_when_queued |-> FALSE,
     poll_interval |-> 0]

\* the keys of dev_types for which the model has a driver
dev_types == {"gpio", "http", "rf"}

\* the [power ...] sections a configuration file can hold for one name:
\* type is the value of its `type` option, valid tells whether the
\* constructor of the device class accepts its options, c are the options
SectionsOf(name) ==
    {[name |-> name, type |-> "nonsense", valid |-> TRUE, c |-> GpioPlain],
     [name |-> name, type |-> "gpio", valid |-> FALSE, c |-> GpioPlain]}
    \cup {[name |-> name, type |-> c.type, valid |-> TRUE, c |-> c] :
                c \in {GpioPlain, GpioQueued, GpioUnbound}}

\* config.get_prefix_sections("power"): one section per configured name
SectionLists ==
    {<<sa, sb>> : sa \in SectionsOf("a"), sb \in SectionsOf("b")}

\* PrinterPower.__init__, its loop from the i-th section on; R.devices the
\* dict, R.warnings the sections reported by add_warning, R.error the
\* exception that left __init__ ("none": it returned)
RECURSIVE load_sections(_, _, _)
load_sections(R, sections, i) ==
    IF i > Len(sections) \/ R.error # "none" THEN R
    ELSE IF sections[i].type \notin dev_types
         THEN [R EXCEPT !.error = "unsupported_type"]
         ELSE IF ~sections[i].valid
              THEN load_sections([R EXCEPT !.warnings = Append(@, sections[i].name)],
                                 sections, i + 1)
              ELSE load_sections(
                      [R EXCEPT !.devices =
                            (sections[i].name :> PowerDevice(sections[i].c)) @@ @],
                      sections, i + 1)

\* PrinterPower.component_init, its loop from the i-th device on: R.result
\* the devices reported by add_warning, R.called the devices whose
\* initialize() was called, R.error the exception that left component_init
RECURSIVE component_init_loop(_, _, _)
component_init_loop(R, order, i) ==
    IF i > Len(order) \/ R.error # "none" THEN R
    ELSE LET R1 == [R EXCEPT !.called = Append(@, order[i])]
         IN IF ~setup_bound_services(R.G.devices[order[i]])
            THEN [R1 EXCEPT !.error = "bound_service"]
            ELSE LET D1 == initialize(R.G.devices[order[i]])
                 IN component_init_loop(
                        [R1 EXCEPT !.G.devices[order[i]] = D1,
                                   !.result = IF D1.state = "error"
                                              THEN Append(@, order[i]) ELSE @],
                        order, i + 1)

\* the component has not been loaded
InitLoad ==
    /\ devices = <<>>
    /\ delay_callbacks = <<>>
    /\ tasks = [t \in TaskIds |-> IdleTask]
    /\ klippy = "ready"
    /\ last = NoEvent
    /\ loop_time = 0

\* load_component(config): PrinterPower(config) is constructed; when
\* __init__ raises there is no component and no device
Load(sections) ==
    /\ last = NoEvent
    /\ DOMAIN devices = {}
    /\ \E R \in {load_sections([devices |-> <<>>, warnings |-> <<>>, error |-> "none"],
                               sections, 1)} :
            /\ devices' = IF R.error = "none" THEN R.devices ELSE <<>>
            /\ delay_callbacks' = IF R.error = "none"
                                  THEN [d \in DOMAIN R.devices |->
                                            [auto |-> 0, shutdown |-> 0]]
                                  ELSE <<>>
            /\ last' = [op |-> "load", sections |-> sections,
                        warnings |-> R.warnings, error |-> R.error]
    /\ UNCHANGED <<tasks, klippy, loop_time>>

\* the server calls component_init of the component it has just loaded
ComponentInit ==
    /\ last.op = "load"
    /\ last.error = "none"
    /\ \E R \in {component_init_loop(Handler(Globals), RegisteredOrder(devices), 1)} :
            /\ CommitGlobals(R.G)
            /\ last' = [op |-> "component_init", warnings |-> R.result,
                        error |-> R.error, called |-> R.called]
    /\ UNCHANGED <<klippy, loop_time>>

\* the load, the initialization and requests to the loaded devices (to
\* those without bound services, whose process_request does not suspend)
NextLoad ==
    \/ \E sections \in SectionLists : Load(sections)
    \/ ComponentInit
    \/ \E d \in DOMAIN devices, ok \in BOOLEAN : InitTaskRun(d, ok)
    \/ \E dev_name \in {d \in DOMAIN devices : devices[d].bound_services = <<>>},
          action \in {"on", "off"}, ok \in BOOLEAN :
            Single(dev_name, "POST", action, ok)

SpecLoad == InitLoad /\ [][NextLoad]_vars

\* ------------------------------------------------------ the lifecycle runs
\* One device, an HTTP device that polls or a GPIO device with an auto-off
\* timer, both with a shutdown delay; component_init has created its
\* initializer task.  The device is initialized, polled, sent requests,
\* and closed.
HttpPolled ==
    [type |-> "http", locked_while_printing |-> FALSE,
     off_when_shutdown |-> TRUE, off_when_shutdown_delay |-> 1,
     klipper_restart |-> FALSE, bound_services |-> <<>>,
     restrict_actions |-> TRUE, timer |-> 0, on_when_queued |-> FALSE,
     poll_interval |-> 1]

GpioDelay ==
    [type |-> "gpio", locked_while_printing |-> FALSE,
     off_when_shutdown |-> TRUE, off_when_shutdown_delay |-> 1,
     klipper_restart |-> FALSE, bound_services |-> <<>>,
     restrict_actions |-> TRUE, timer |-> 1, on_when_queued |-> FALSE,
     poll_interval |-> 0]

LifecycleConfigs == {HttpPolled, GpioDelay}

InitLifecycle ==
    /\ devices \in {[d \in Devices |-> initialize(PowerDevice(c[d]))] :
                        c \in [Devices -> LifecycleConfigs]}
    /\ delay_callbacks = [d \in Devices |-> [auto |-> 0, shutdown |-> 0]]
    /\ tasks = [t \in TaskIds |-> IdleTask]
    /\ klippy = "ready"
    /\ last = NoEvent
    /\ loop_time = 0

\* HTTPDevice.init_state starts: it takes the request lock and sends the
\* status request (component_init runs before any request is served, so
\* the lock is free)
InitStart(d) ==
    /\ devices[d].type = "http"
    /\ devices[d].init_task = "pending"
    /\ CanAcquire(devices[d].request_lock)
    /\ devices' = [devices EXCEPT ![d].request_lock.locked = TRUE,
                                  ![d].init_task = "running"]
    /\ last' = NoEvent
    /\ UNCHANGED <<delay_callbacks, tasks, klippy, loop_time>>

\* HTTPDevice.init_state, the status request raised: the error is logged
\* and the request sent again after a sleep of 5 seconds, the lock held
InitRetry(d) ==
    /\ devices[d].type = "http"
    /\ devices[d].init_task = "running"
    /\ last' = [op |-> "init_retry", dev |-> d]
    /\ UNCHANGED <<devices, delay_callbacks, tasks, klippy, loop_time>>

\* HTTPDevice.init_state, the status request returned a state: the handle
\* is dropped, the state stored and _set_initial_state awaited; without an
\* await in it the initializer runs to its end
InitStatus(d, state) ==
    /\ devices[d].type = "http"
    /\ devices[d].init_task = "running"
    /\ devices' = [devices EXCEPT ![d] =
            set_initial_state([@ EXCEPT !.init_task = "none", !.state = state,
                                        !.init_log = Append(@, "state")])]
    /\ last' = NoEvent
    /\ UNCHANGED <<delay_callbacks, tasks, klippy, loop_time>>

\* the set_power awaited by _set_initial_state ends (HTTPDevice.set_power:
\* result = the state returned or "fail").  Its exception ends
\* _set_initial_state, where it is logged
InitSetPowerDone(d, result) ==
    /\ devices[d].init_pc = "set_power"
    /\ devices' = [devices EXCEPT ![d] =
            IF result = "fail" THEN init_state_ends([@ EXCEPT !.state = "error"])
            ELSE init_bound_services([@ EXCEPT !.state = result])]
    /\ last' = NoEvent
    /\ UNCHANGED <<delay_callbacks, tasks, klippy, loop_time>>

\* process_bound_services awaited by an initializer: one do_service_action
\* ends or raises (the error is logged and the loop goes on)
InitServiceDone(d, ok) ==
    /\ devices[d].init_pc = "services"
    /\ devices' = [devices EXCEPT ![d] =
            LET D == [@ EXCEPT !.init_log = Append(@, "service")]
            IN IF D.init_svc < Len(D.bound_services)
               THEN [D EXCEPT !.init_svc = @ + 1]
               ELSE init_state_ends(D)]
    /\ last' = NoEvent
    /\ UNCHANGED <<delay_callbacks, tasks, klippy, loop_time>>

\* the CancelledError reaches the initializer at its await: it leaves
\* `async with self.request_lock`
InitCancelled(d) ==
    /\ devices[d].init_task = "cancelling"
    /\ devices' = [devices EXCEPT ![d].init_task = "none",
                                  ![d].request_lock.locked = FALSE]
    /\ last' = NoEvent
    /\ UNCHANGED <<delay_callbacks, tasks, klippy, loop_time>>

\* _poll_device wakes from its sleep with the interval elapsed and awaits
\* process_request("status")
PollDue(d) ==
    /\ devices[d].poller = "sleeping"
    /\ devices[d].poll_interval # 0
    /\ FreeSlot(tasks) # 0
    /\ LET t == FreeSlot(tasks)
           D == [devices[d] EXCEPT !.poller = "requesting", !.poll_slot = t]
       IN Commit(t, StartRequest([D |-> D, L |-> delay_callbacks[d],
                                  T |-> NewTask(d, "status", FALSE)], t, TRUE))
    /\ UNCHANGED <<klippy, loop_time>>

\* _poll_device wakes from its sleep and finds _poll_interval None: the
\* loop and the task end
PollExit(d) ==
    /\ devices[d].poller = "sleeping"
    /\ devices[d].poll_interval = 0
    /\ devices' = [devices EXCEPT ![d].poller = "none"]
    /\ last' = NoEvent
    /\ UNCHANGED <<delay_callbacks, tasks, klippy, loop_time>>

\* `if self.init_task is not None: self.init_task.cancel(); ... = None`
cancel_init_task(D) ==
    [D EXCEPT !.init_task = IF @ = "running" THEN "cancelling"
                            ELSE IF @ = "cancelling" THEN @ ELSE "none"]

\* poll_task.cancel(), and the wait_for that timed out: the poll loop gets
\* a CancelledError at its sleep or in the process_request it awaits
cancel_poller(G, d) ==
    LET D == G.devices[d]
    IN IF D.poller = "requesting"
       THEN LET t == D.poll_slot
                X == resume_poll_device(
                        CancelTask([D |-> D, L |-> G.delay_callbacks[d],
                                    T |-> G.tasks[t]], t), t)
            IN [G EXCEPT !.devices[d] = X.D, !.tasks[t] = IdleTask]
       ELSE [G EXCEPT !.devices[d].poller = "none"]

\* (mutant of stop_polling: with the lock held the loop is left alone,
\* neither stopped through its interval nor waited for)
stop_polling_leave(G, d) ==
    IF G.devices[d].poll_task = "none" THEN [G |-> G, wait |-> FALSE]
    ELSE LET G1 == [G EXCEPT !.devices[d].poll_task = "none"]
         IN IF G1.devices[d].request_lock.locked
            THEN [G |-> G1, wait |-> FALSE]
            ELSE [G |-> cancel_poller(G1, d), wait |-> FALSE]

\* (mutant of stop_polling: the poll loop is cancelled at once, whether
\* the lock is held or not)
stop_polling_now(G, d) ==
    IF G.devices[d].poll_task = "none" THEN [G |-> G, wait |-> FALSE]
    ELSE [G |-> cancel_poller([G EXCEPT !.devices[d].poll_task = "none"], d),
          wait |-> FALSE]

\* PowerDevice.stop_polling; wait = it returned the wait_for coroutine
stop_polling(G, d) ==
    IF G.devices[d].poll_task = "none" THEN [G |-> G, wait |-> FALSE]
    ELSE LET G1 == [G EXCEPT !.devices[d].poll_task = "none"]
         IN IF G1.devices[d].request_lock.locked
            THEN [G |-> [G1 EXCEPT !.devices[d].poll_interval = 0], wait |-> TRUE]
            ELSE [G |-> cancel_poller(G1, d), wait |-> FALSE]

\* PowerDevice.close
PowerDevice_close(G, d) ==
    LET S == stop_polling([G EXCEPT !.devices[d] = cancel_init_task(@)], d)
    IN [S.G EXCEPT !.devices[d].closing = IF S.wait THEN "waiting" ELSE "closed"]

\* GpioDevice.close (RFDevice inherits it): the auto-off timer is cancelled
GpioDevice_close(G, d) ==
    LET X == cancel_timer([D |-> G.devices[d], L |-> G.delay_callbacks[d],
                           T |-> IdleTask])
    IN [G EXCEPT !.devices[d] = [X.D EXCEPT !.closing = "closed"],
                 !.delay_callbacks[d] = X.L]

\* device.close(), by the class of the device
close(G, d) ==
    IF G.devices[d].type \in {"http", "mqtt"} THEN PowerDevice_close(G, d)
    ELSE GpioDevice_close(G, d)

\* PrinterPower.close, its loop over the devices
RECURSIVE close_all(_, _)
close_all(G, i) ==
    IF i > Len(DeviceOrder) THEN G
    ELSE close_all(close(G, DeviceOrder[i]), i + 1)

\* PrinterPower.close is called (once, when the server shuts down)
Close ==
    /\ \A d \in Devices : devices[d].closing = "no"
    /\ CommitGlobals(close_all(Globals, 1))
    /\ last' = [op |-> "close"]
    /\ UNCHANGED <<klippy, loop_time>>

\* asyncio.wait_for(poll_task, 1.): the poll loop has ended
CloseDone(d) ==
    /\ devices[d].closing = "waiting"
    /\ devices[d].poller = "none"
    /\ devices' = [devices EXCEPT ![d].closing = "closed"]
    /\ last' = NoEvent
    /\ UNCHANGED <<delay_callbacks, tasks, klippy, loop_time>>

\* asyncio.wait_for(poll_task, 1.): the second has passed, the poll loop
\* is cancelled; gather(return_exceptions=True) keeps the TimeoutError
CloseTimeout(d) ==
    /\ devices[d].closing = "waiting"
    /\ devices[d].poller # "none"
    /\ LET G == cancel_poller(Globals, d)
       IN CommitGlobals([G EXCEPT !.devices[d].closing = "closed"])
    /\ last' = NoEvent
    /\ UNCHANGED <<klippy, loop_time>>

NextLifecycle ==
    \/ \E d \in Devices : InitStart(d)
    \/ \E d \in Devices, state \in {"on", "off"} : InitStatus(d, state)
    \/ \E d \in Devices : InitCancelled(d)
    \/ \E d \in Devices, ok \in BOOLEAN : InitTaskRun(d, ok)
    \/ \E d \in Devices : PollDue(d)
    \/ \E d \in Devices : PollExit(d)
    \/ \E d \in Devices, req \in {"status", "on"} : Request(d, req, TRUE)
    \/ \E t \in TaskIds : Begin(t, TRUE)
    \/ \E t \in TaskIds : LockGranted(t, TRUE)
    \/ \E t \in TaskIds, result \in {"on", "off"} : RefreshDone(t, result)
    \/ \E t \in TaskIds, result \in {"on", "off"} : SetPowerDone(t, result)
    \/ \E s \in {"ready", "shutdown"} : KlippyChange(s)
    \/ HandleKlippyShutdown
    \/ \E d \in Devices, byHandle \in BOOLEAN : ShutdownTimerFire(d, byHandle)
    \/ \E d \in Devices, byHandle \in BOOLEAN : AutoTimerFire(d, byHandle)
    \/ Close
    \/ \E d \in Devices : CloseDone(d)
    \/ \E d \in Devices : CloseTimeout(d)

SpecLifecycle == InitLifecycle /\ [][NextLifecycle]_vars

\* the lifecycle runs in which the event loop keeps its promises: the
\* timeout of wait_for(poll_task, 1.) expires when the poll loop has not
\* ended, and the awaited close() is resumed when it has
SpecLifecycleFair ==
    /\ SpecLifecycle
    /\ \A d \in Devices : WF_vars(CloseTimeout(d))
    /\ \A d \in Devices : WF_vars(CloseDone(d))

\* the update time: an HTTP device whose initializer is still to run, the
\* requests it is sent while and after it initializes, and the clock
InitClock ==
    /\ devices = [d \in Devices |-> initialize(PowerDevice(HttpDelay))]
    /\ delay_callbacks = [d \in Devices |-> [auto |-> 0, shutdown |-> 0]]
    /\ tasks = [t \in TaskIds |-> IdleTask]
    /\ klippy = "ready"
    /\ last = NoEvent
    /\ loop_time = 0

NextClock ==
    \/ Tick
    \/ \E d \in Devices : InitStart(d)
    \/ \E d \in Devices, state \in {"on", "off"} : InitStatus(d, state)
    \/ \E d \in Devices, req \in {"status", "on", "bogus"} : Request(d, req, TRUE)
    \/ \E t \in TaskIds : LockGranted(t, TRUE)
    \/ \E t \in TaskIds, result \in {"on", "off", "error"} : RefreshDone(t, result)
    \/ \E t \in TaskIds, result \in {"on", "fail"} : SetPowerDone(t, result)
    \/ \E t \in TaskIds : Cancel(t)

SpecClock == InitClock /\ [][NextClock]_vars

\* ------------------------------------------------------ the event runs
\* a klipper_device (off_when_shutdown and restart_klipper_when_powered
\* are refused by its __init__) and an mqtt device without and with a
\* query topic
KlipperPin ==
    [type |-> "klipper", locked_while_printing |-> FALSE,
     off_when_shutdown |-> FALSE, off_when_shutdown_delay |-> 0,
     klipper_restart |-> FALSE, bound_services |-> <<>>,
     restrict_actions |-> TRUE, timer |-> 1, on_when_queued |-> FALSE,
     poll_interval |-> 0]

MqttSwitch ==
    [type |-> "mqtt", locked_while_printing |-> FALSE,
     off_when_shutdown |-> FALSE, off_when_shutdown_delay |-> 0,
     klipper_restart |-> FALSE, bound_services |-> <<>>,
     restrict_actions |-> TRUE, timer |-> 0, on_when_queued |-> FALSE,
     poll_interval |-> 0]

\* MQTTDevice.__init__: the options query_topic and query_after_command
MQTTDevice(c, query_topic, must_query) ==
    [PowerDevice(c) EXCEPT !.query_topic = query_topic,
                           !.must_query = query_topic /\ must_query]

\* the devices of the event runs, as constructed
EventDevices ==
    {PowerDevice(KlipperPin), PowerDevice(RfTimer), PowerDevice(GpioTimer),
     MQTTDevice(MqttSwitch, FALSE, FALSE), MQTTDevice(MqttSwitch, TRUE, TRUE)}

InitEvents ==
    /\ devices \in [Devices -> EventDevices]
    /\ delay_callbacks = [d \in Devices |-> [auto |-> 0, shutdown |-> 0]]
    /\ tasks = [t \in TaskIds |-> IdleTask]
    /\ klippy = "ready"
    /\ last = NoEvent
    /\ loop_time = 0

NextEvents ==
    \/ \E d \in Devices, req \in {"status", "on", "off"}, ok \in BOOLEAN :
            Request(d, req, ok)
    \/ \E t \in TaskIds, ok \in BOOLEAN : Begin(t, ok)
    \/ \E t \in TaskIds, ok \in BOOLEAN : LockGranted(t, ok)
    \/ \E t \in TaskIds, result \in {"on", "off", "error"} : RefreshDone(t, result)
    \/ \E t \in TaskIds, result \in {"on", "off", "fail"} : SetPowerDone(t, result)
    \/ \E s \in {"ready", "shutdown"} : KlippyChange(s)
    \/ HandleKlippyShutdown
    \/ \E d \in Devices, byHandle \in BOOLEAN : AutoTimerFire(d, byHandle)
    \/ \E d \in Devices : KlippyDisconnect(d)
    \/ \E d \in Devices, data \in {"on", "off", "invalid"} : KlippyReady(d, data)
    \/ \E d \in Devices, state \in {"on", "off"} : StatusUpdate(d, state)
    \/ \E d \in Devices, up \in BOOLEAN : MqttConnection(d, up)
    \/ \E d \in Devices : OnMqttConnected(d)
    \/ \E d \in Devices, result \in {"on", "off", "error"} :
            OnMqttConnectedDone(d, result)
    \/ \E d \in Devices : OnMqttDisconnected(d)
    \/ \E d \in Devices, payload \in {"on", "off", "invalid"} :
            OnStateUpdate(d, payload)
    \/ Close

SpecEvents == InitEvents /\ [][NextEvents]_vars

\* ------------------------------------------------------- the poll runs
\* `time_diff = eventloop.get_loop_time() - self._last_update_time`
time_diff(D) == loop_time - D.last_update_time

\* _poll_device is scheduled (its sleep has ended, or it was just created)
\* and a poll interval is set
PollRuns(d) ==
    /\ devices[d].poller = "sleeping"
    /\ devices[d].poll_interval # 0
    /\ loop_time >= devices[d].sleep_until

\* an iteration of _poll_device with time_diff >= _poll_interval: it
\* awaits process_request("status"); when that ends the loop sleeps the
\* whole interval (resume_poll_device)
PollRequest(d) ==
    /\ PollRuns(d)
    /\ time_diff(devices[d]) >= devices[d].poll_interval
    /\ PollDue(d)

\* an iteration of _poll_device with time_diff < _poll_interval: no
\* request, `await asyncio.sleep(time_diff)`.  `last` records the elapsed
\* time and the length of the sleep.
PollSleep(d) ==
    /\ PollRuns(d)
    /\ time_diff(devices[d]) < devices[d].poll_interval
    /\ devices' = [devices EXCEPT ![d].sleep_until =
                                    loop_time + time_diff(devices[d])]
    /\ last' = [op |-> "poll_sleep", dev |-> d,
                elapsed |-> time_diff(devices[d]),
                sleep |-> devices'[d].sleep_until - loop_time]
    /\ UNCHANGED <<delay_callbacks, tasks, klippy, loop_time>>

\* a polled HTTP device whose initializer is still to run, the clock, the
\* poll loop and the requests of users
HttpPolledSlow ==
    [type |-> "http", locked_while_printing |-> FALSE,
     off_when_shutdown |-> FALSE, off_when_shutdown_delay |-> 0,
     klipper_restart |-> FALSE, bound_services |-> <<>>,
     restrict_actions |-> TRUE, timer |-> 0, on_when_queued |-> FALSE,
     poll_interval |-> MaxTime]

InitPoll ==
    /\ devices = [d \in Devices |-> initialize(PowerDevice(HttpPolledSlow))]
    /\ delay_callbacks = [d \in Devices |-> [auto |-> 0, shutdown |-> 0]]
    /\ tasks = [t \in TaskIds |-> IdleTask]
    /\ klippy = "ready"
    /\ last = NoEvent
    /\ loop_time = 0

NextPoll ==
    \/ Tick
    \/ \E d \in Devices : InitStart(d)
    \/ \E d \in Devices, state \in {"on", "off"} : InitStatus(d, state)
    \/ \E d \in Devices : PollRequest(d)
    \/ \E d \in Devices : PollSleep(d)
    \/ \E d \in Devices, req \in {"status", "on"} : Request(d, req, TRUE)
    \/ \E t \in TaskIds : LockGranted(t, TRUE)
    \/ \E t \in TaskIds, result \in {"on", "off", "error"} : RefreshDone(t, result)
    \/ \E t \in TaskIds, result \in {"on", "fail"} : SetPowerDone(t, result)

SpecPoll == InitPoll /\ [][NextPoll]_vars

\* ------------------------------------------- the external-change runs
\* a klipper_device with a bound service and full side effects; klippy
\* reports and pushes the state of its object, users send requests, the
\* clock advances
KlipperBound ==
    [type |-> "klipper", locked_while_printing |-> FALSE,
     off_when_shutdown |-> FALSE, off_when_shutdown_delay |-> 0,
     klipper_restart |-> FALSE, bound_services |-> <<"svc1">>,
     restrict_actions |-> FALSE, timer |-> 0, on_when_queued |-> FALSE,
     poll_interval |-> 0]

InitNotify ==
    /\ devices \in [Devices -> {PowerDevice(KlipperPin), PowerDevice(KlipperBound)}]
    /\ delay_callbacks = [d \in Devices |-> [auto |-> 0, shutdown |-> 0]]
    /\ tasks = [t \in TaskIds |-> IdleTask]
    /\ klippy = "ready"
    /\ last = NoEvent
    /\ loop_time = 0

NextNotify ==
    \/ Tick
    \/ \E d \in Devices, data \in {"on", "off"} : KlippyReady(d, data)
    \/ \E d \in Devices, state \in {"on", "off"} : StatusUpdate(d, state)
    \/ \E d \in Devices, req \in {"status", "on"} : Request(d, req, TRUE)
    \/ \E t \in TaskIds : Begin(t, TRUE)
    \/ \E t \in TaskIds : LockGranted(t, TRUE)
    \/ \E t \in TaskIds, result \in {"on", "error"} : RefreshDone(t, result)
    \/ \E t \in TaskIds, result \in {"on", "off", "fail"} : SetPowerDone(t, result)
    \/ \E t \in TaskIds, ok \in BOOLEAN : ServiceActionDone(t, ok)
    \/ \E d \in Devices, byHandle \in BOOLEAN : AutoTimerFire(d, byHandle)

SpecNotify == InitNotify /\ [][NextNotify]_vars

\* ------------------------------------------------ the initializers run
\* an HTTP device and a GPIO device with a bound service, each with the
\* option initial_state unset, on or off; their initializers run, the HTTP
\* device is polled, users send requests
HttpBound ==
    [type |-> "http", locked_while_printing |-> FALSE,
     off_when_shutdown |-> FALSE, off_when_shutdown_delay |-> 0,
     klipper_restart |-> FALSE, bound_services |-> <<"svc1">>,
     restrict_actions |-> FALSE, timer |-> 0, on_when_queued |-> FALSE,
     poll_interval |-> 1]

GpioBound ==
    [type |-> "gpio", locked_while_printing |-> FALSE,
     off_when_shutdown |-> FALSE, off_when_shutdown_delay |-> 0,
     klipper_restart |-> FALSE, bound_services |-> <<"svc1">>,
     restrict_actions |-> FALSE, timer |-> 0, on_when_queued |-> FALSE,
     poll_interval |-> 0]

InitInit ==
    /\ devices \in
         {[d \in Devices |->
              initialize([PowerDevice(c[d]) EXCEPT !.initial_state = i[d]])] :
            c \in [Devices -> {HttpBound, HttpPolled, GpioBound}],
            i \in [Devices -> {"none", "on", "off"}]}
    /\ delay_callbacks = [d \in Devices |-> [auto |-> 0, shutdown |-> 0]]
    /\ tasks = [t \in TaskIds |-> IdleTask]
    /\ klippy = "ready"
    /\ last = NoEvent
    /\ loop_time = 0

\* a request for a device whose initializer has started: initialize()
\* creates the task before the device is registered, and the event loop
\* runs what was scheduled first before what is scheduled later
RequestInitialized(d, req) ==
    /\ devices[d].init_task # "pending"
    /\ Request(d, req, TRUE)

NextInit ==
    \/ \E d \in Devices : InitStart(d)
    \/ \E d \in Devices : InitRetry(d)
    \/ \E d \in Devices, state \in {"on", "off"} : InitStatus(d, state)
    \/ \E d \in Devices, result \in {"on", "off", "fail"} : InitSetPowerDone(d, result)
    \/ \E d \in Devices, ok \in BOOLEAN : InitServiceDone(d, ok)
    \/ \E d \in Devices, ok \in BOOLEAN : InitTaskRun(d, ok)
    \/ \E d \in Devices : PollDue(d)
    \/ \E d \in Devices, req \in {"status", "on"} : RequestInitialized(d, req)
    \/ \E t \in TaskIds : LockGranted(t, TRUE)
    \/ \E t \in TaskIds, result \in {"on", "off"} : RefreshDone(t, result)
    \/ \E t \in TaskIds, result \in {"on", "fail"} : SetPowerDone(t, result)
    \/ \E t \in TaskIds : ServiceActionDone(t, TRUE)

SpecInit == InitInit /\ [][NextInit]_vars

\* ------------------------------------------------- the auto-off runs
\* devices with an auto-off timer: a GPIO device that refuses changes
\* while printing, an RF device and a klipper_device; users send requests,
\* klippy prints, reports and pushes the state of its object, timers fire
GpioTimerLocked ==
    [type |-> "gpio", locked_while_printing |-> TRUE,
     off_when_shutdown |-> FALSE, off_when_shutdown_delay |-> 0,
     klipper_restart |-> FALSE, bound_services |-> <<>>,
     restrict_actions |-> TRUE, timer |-> 1, on_when_queued |-> FALSE,
     poll_interval |-> 0]

InitAutoOff ==
    /\ devices \in [Devices -> {PowerDevice(GpioTimerLocked), PowerDevice(RfTimer),
                                PowerDevice(KlipperPin)}]
    /\ delay_callbacks = [d \in Devices |-> [auto |-> 0, shutdown |-> 0]]
    /\ tasks = [t \in TaskIds |-> IdleTask]
    /\ klippy = "ready"
    /\ last = NoEvent
    /\ loop_time = 0

NextAutoOff ==
    \/ \E d \in Devices, req \in {"status", "on", "off"} : Request(d, req, TRUE)
    \/ \E t \in TaskIds : Begin(t, TRUE)
    \/ \E t \in TaskIds : LockGranted(t, TRUE)
    \/ \E t \in TaskIds, result \in {"on", "off"} : RefreshDone(t, result)
    \/ \E t \in TaskIds, result \in {"on", "off", "fail"} : SetPowerDone(t, result)
    \/ \E s \in {"ready", "printing"} : KlippyChange(s)
    \/ \E d \in Devices, byHandle \in BOOLEAN : AutoTimerFire(d, byHandle)
    \/ \E d \in Devices, data \in {"on", "off"} : KlippyReady(d, data)
    \/ \E d \in Devices, state \in {"on", "off"} : StatusUpdate(d, state)

SpecAutoOff == InitAutoOff /\ [][NextAutoOff]_vars

\* ------------------------------------------- the requests make progress
\* asyncio.Lock is first come, first served: a connection handler of an
\* MQTT device that finds the lock taken queues for it like a request.
\* The waiter 0 of a lock is the handler _on_mqtt_connected of the device
\* (the waiters 1..MaxTasks are the coroutines of the task slots).
OnMqttConnectedQueues(d) ==
    /\ "connected" \in devices[d].pending
    /\ ~CanAcquire(devices[d].request_lock)
    /\ \A i \in 1..Len(devices[d].request_lock.waiters) :
            devices[d].request_lock.waiters[i] # 0
    /\ devices' = [devices EXCEPT ![d].request_lock.waiters = Append(@, 0)]
    /\ last' = NoEvent
    /\ UNCHANGED <<delay_callbacks, tasks, klippy, loop_time>>

\* the released lock wakes the queued handler, which takes it
OnMqttConnectedGranted(d) ==
    /\ ~devices[d].request_lock.locked
    /\ devices[d].request_lock.waiters # <<>>
    /\ Head(devices[d].request_lock.waiters) = 0
    /\ devices' = [devices EXCEPT ![d] =
            on_mqtt_connected([@ EXCEPT !.request_lock.waiters = Tail(@)])]
    /\ last' = Event("mqtt_connected", d)
    /\ UNCHANGED <<delay_callbacks, tasks, klippy, loop_time>>

\* _on_mqtt_connected with a query topic: the wait for the answer timed
\* out, the handler sleeps 2 seconds and queries again while the
\* connection is up, holding the lock
OnMqttConnectedRetry(d) ==
    /\ devices[d].running = "connected"
    /\ devices[d].query_topic
    /\ devices[d].mqtt_connected
    /\ last' = Event("mqtt_query_timeout", d)
    /\ UNCHANGED <<devices, delay_callbacks, tasks, klippy, loop_time>>

\* _on_mqtt_disconnected, before it goes for the lock, fails the answer
\* that _on_mqtt_connected waits for: the handler leaves its loop with
\* the state 'error'
OnMqttConnectedLost(d) ==
    /\ "disconnected" \in devices[d].pending
    /\ OnMqttConnectedDone(d, "error")

\* an HTTP device whose initializer is still to run and an MQTT device
\* with a query topic; the connection comes and goes, users send requests
InitProgress ==
    /\ devices \in [Devices -> {initialize(PowerDevice(HttpPolled)),
                                MQTTDevice(MqttSwitch, TRUE, TRUE)}]
    /\ delay_callbacks = [d \in Devices |-> [auto |-> 0, shutdown |-> 0]]
    /\ tasks = [t \in TaskIds |-> IdleTask]
    /\ klippy = "ready"
    /\ last = NoEvent
    /\ loop_time = 0

NextProgress ==
    \/ \E d \in Devices : InitStart(d)
    \/ \E d \in Devices : InitRetry(d)
    \/ \E d \in Devices, state \in {"on", "off"} : InitStatus(d, state)
    \/ \E d \in Devices, req \in {"status", "on"} : RequestInitialized(d, req)
    \/ \E t \in TaskIds : LockGranted(t, TRUE)
    \/ \E t \in TaskIds, result \in {"on", "off", "error"} : RefreshDone(t, result)
    \/ \E t \in TaskIds, result \in {"on", "fail"} : SetPowerDone(t, result)
    \/ \E d \in Devices, up \in BOOLEAN : MqttConnection(d, up)
    \/ \E d \in Devices : OnMqttConnected(d)
    \/ \E d \in Devices : OnMqttConnectedQueues(d)
    \/ \E d \in Devices : OnMqttConnectedGranted(d)
    \/ \E d \in Devices : OnMqttConnectedRetry(d)
    \/ \E d \in Devices, result \in {"on", "off", "error"} :
            OnMqttConnectedDone(d, result)
    \/ \E d \in Devices : OnMqttConnectedLost(d)
    \/ \E d \in Devices : OnMqttDisconnected(d)

\* every driver call ends and the event loop resumes every coroutine that
\* can run: the refresh and the set_power of a request end, the released
\* lock is handed to its first waiter.  Nothing makes a device answer
\* the status request of an initializer or the query of a connection
\* handler: each of their waits ends, but it may end in a failure for ever
SpecProgress ==
    /\ InitProgress /\ [][NextProgress]_vars
    /\ \A t \in TaskIds : WF_vars(LockGranted(t, TRUE))
    /\ \A t \in TaskIds :
            WF_vars(\E result \in {"on", "off", "error"} : RefreshDone(t, result))
    /\ \A t \in TaskIds :
            WF_vars(\E result \in {"on", "fail"} : SetPowerDone(t, result))
    /\ \A d \in Devices : WF_vars(OnMqttConnectedGranted(d))
    /\ \A d \in Devices : WF_vars(OnMqttConnectedLost(d))

\* --------------------------------------------- properties of the registry
\* C11: a call of set_device_power for a registered device with any
\* spelling of on (true, "on", "true" in any case) schedules the request
\* process_request("on", force) and nothing else, and with any spelling of
\* off the request process_request("off", force): what is scheduled does
\* not depend on the spelling.
C11_SpellingsAgree ==
    [][(last'.op = "set_device_power" /\ last'.device \in DOMAIN devices)
        => /\ last'.state \in OnSpellings
                => tasks' = [tasks EXCEPT ![FreeSlot(tasks)] =
                                NewTask(last'.device, "on", last'.force)]
           /\ last'.state \in OffSpellings
                => tasks' = [tasks EXCEPT ![FreeSlot(tasks)] =
                                NewTask(last'.device, "off", last'.force)]
           /\ devices' = devices
           /\ delay_callbacks' = delay_callbacks]_vars

\* C11 witness: set_device_power("a", "TRUE", force = true) has scheduled
\* the forced request "on".
C11_Witness ==
    /\ last.op = "set_device_power"
    /\ last.state = Str("TRUE")
    /\ last.force
    /\ \E t \in TaskIds : tasks[t] = NewTask("a", "on", TRUE)

\* C12: a call of set_device_power with a name that is not registered or
\* with a state that does not normalise to on/off/toggle schedules no
\* request and leaves every device, lock and timer as it was.
C12_InvalidDropped ==
    [][(/\ last'.op = "set_device_power"
        /\ \/ last'.device \notin DOMAIN devices
           \/ last'.state \in InvalidSpellings)
        => /\ tasks' = tasks
           /\ devices' = devices
           /\ delay_callbacks' = delay_callbacks]_vars

\* C12 witness: set_device_power was called with an invalid state for a
\* registered device while a scheduled request was waiting to start.
C12_Witness ==
    /\ last.op = "set_device_power"
    /\ last.device \in DOMAIN devices
    /\ last.state = Str("bogus")
    /\ \E t \in TaskIds : tasks[t].pc = "start"

\* the names of an argument list, and those of them that are registered
ArgSet(args) == {args[i] : i \in 1..Len(args)}
KnownArgs(args) == SelectSeq(args, LAMBDA n : n \in DOMAIN devices)

\* C13: a batch request that returns has one entry per requested name: the
\* state process_request returned for a registered name (the state the
\* device is left in) and "device_not_found" for any other; process_request
\* is awaited for the registered names only, and a request that names only
\* unknown names returns.
C13_BatchEntries ==
    last.op = "batch" =>
        /\ last.error = "none" =>
            /\ DOMAIN last.result = ArgSet(last.args)
            /\ \A n \in DOMAIN last.result :
                    last.result[n] = IF n \in DOMAIN devices
                                     THEN devices[n].state
                                     ELSE "device_not_found"
            /\ last.called = KnownArgs(last.args)
        /\ (last.args # <<>> /\ KnownArgs(last.args) = <<>>)
                => last.error = "none"
        /\ \A i \in 1..Len(last.called) : last.called[i] \in DOMAIN devices

\* C13 witness: a batch "on" naming an unknown name and then device a has
\* returned both entries.
C13_Witness ==
    /\ last.op = "batch"
    /\ last.args = <<UnknownName, "a">>
    /\ last.req = "on"
    /\ last.error = "none"
    /\ last.result[UnknownName] = "device_not_found"
    /\ last.result["a"] = "on"

\* C14 as stated: a batch request with at least one name does not fail,
\* and process_request is awaited for every registered name it gives.
C14_FailureCaptured ==
    (last.op = "batch" /\ last.args # <<>>)
        => /\ last.error = "none"
           /\ last.called = KnownArgs(last.args)

\* C15: a single-device request with an unknown name, or a POST whose
\* action is not on/off/toggle, fails, awaits no process_request and
\* changes nothing; any other request awaits process_request of the named
\* device only, with the action lower-cased ("status" for a GET), and when
\* that returns the handler returns {name: the state returned}.
C15_SingleRequest ==
    [][last'.op = "single" =>
        IF last'.device \notin DOMAIN devices
        THEN /\ last'.error = "no_device"
             /\ last'.called = <<>>
             /\ <<devices, delay_callbacks, tasks>>' = <<devices, delay_callbacks, tasks>>
        ELSE IF last'.req_type = "POST" /\ last'.action \notin {"on", "OFF", "Toggle"}
             THEN /\ last'.error = "invalid_action"
                  /\ last'.called = <<>>
                  /\ <<devices, delay_callbacks, tasks>>' = <<devices, delay_callbacks, tasks>>
             ELSE /\ last'.called = <<last'.device>>
                  /\ last'.error \in {"none", "printing", "set_power"}
                  /\ last'.error = "none"
                        => /\ DOMAIN last'.result = {last'.device}
                           /\ last'.result[last'.device] = devices'[last'.device].state
                  /\ (last'.error = "none" /\ last'.req_type = "POST" /\ last'.action = "OFF")
                        => devices'[last'.device].state = "off"
                  /\ \A d \in DOMAIN devices \ {last'.device} :
                        devices'[d] = devices[d]]_vars

\* C15 witness: a POST with action "OFF" for device a has turned it off
\* and returned {a: off}.
C15_Witness ==
    /\ last.op = "single"
    /\ last.device = "a"
    /\ last.req_type = "POST"
    /\ last.action = "OFF"
    /\ last.error = "none"
    /\ last.result["a"] = "off"
    /\ devices["a"].state = "off"

\* C16 as stated: a call of add_device that ends without error has
\* registered the device.
C16_Original ==
    (last.op = "add_device" /\ last.error = "none") => last.name \in DOMAIN devices

\* C16 amended: with a registered name add_device fails and the registry
\* is unchanged; with a new name it creates the initializer and registers
\* the device under that name, leaving the other devices alone, unless the
\* initialization reports a failure: then it returns without error with a
\* warning and the device is not registered.
C16_AddDevice ==
    [][last'.op = "add_device" =>
        IF last'.name \in DOMAIN devices
        THEN /\ last'.error = "already_configured"
             /\ devices' = devices
        ELSE /\ last'.error = "none"
             /\ IF last'.state = "error"
                THEN /\ last'.result = "warning"
                     /\ devices' = devices
                ELSE /\ last'.result = "added"
                     /\ DOMAIN devices' = DOMAIN devices \cup {last'.name}
                     /\ devices'[last'.name].init_task = "pending"
                     /\ \A d \in DOMAIN devices : devices'[d] = devices[d]]_vars

\* C16 witness: add_device("c", ...) has registered c, whose initializer
\* is pending.
C16_Witness ==
    /\ last.op = "add_device"
    /\ last.name = "c"
    /\ last.result = "added"
    /\ "c" \in DOMAIN devices
    /\ devices["c"].init_task = "pending"

\* the devices flagged on_when_queued, in registry order
Flagged == SelectSeq(RegisteredOrder(devices), LAMBDA n : devices[n].on_when_queued)

\* C19 as stated: a jobs_added event issues an "on" request for every
\* flagged device and no other; any other queue action issues none.
C19_EveryFlaggedDevice ==
    last.op = "job_queued" =>
        last.called = IF last.action = "jobs_added" THEN Flagged ELSE <<>>

\* ------------------------------------------- properties of the lifecycle
\* PrinterPower.close() has completed: every device's close() has run and
\* the coroutines it returned have been awaited
Closed == \A d \in Devices : devices[d].closing = "closed"

\* C17 as stated: after PrinterPower.close() has completed no device has
\* an initializer task that is still to run or running, nor a live poll
\* loop.
C17_NoLiveTasks ==
    Closed => \A d \in Devices :
                /\ devices[d].init_task \notin {"pending", "running"}
                /\ devices[d].poller = "none"

\* C18 as stated: after a device has been closed none of its timers
\* is armed.
C18_NoArmedTimers ==
    \A d \in Devices :
        devices[d].closing = "closed"
            => /\ delay_callbacks[d].auto = 0
               /\ delay_callbacks[d].shutdown = 0

\* what a request that took the fast return has done
FastReturn(T) ==
    /\ T.pc = "done"
    /\ T.result = "init"
    /\ ~T.acquired
    /\ T.refreshed = "none"
    /\ T.set_arg = "none"
    /\ T.notified = 0

\* C20: a process_request that starts (awaited directly, or started by the
\* event loop after set_device_power) while the device's state is "init"
\* and its lock is held ends in the same step with the result "init": it
\* is not queued on the lock, neither refresh_status nor set_power is
\* invoked, no notification is sent, and the device is left as it was.
C20_FastReturn ==
    [][\A d \in Devices :
        (/\ devices[d].state = "init"
         /\ devices[d].request_lock.locked
         /\ \/ \E req \in Requests : Request(d, req, TRUE)
            \/ \E t \in TaskIds : tasks[t].dev = d /\ Begin(t, TRUE))
        => /\ last'.op = "ended"
           /\ FastReturn(last'.task)
           /\ last'.task.dev = d
           /\ devices' = devices
           /\ delay_callbacks' = delay_callbacks
           /\ \A t \in TaskIds :
                \/ tasks'[t] = tasks[t]
                \/ tasks[t].pc = "start" /\ tasks'[t] = IdleTask]_vars

\* C20 witness: an "on" request arrived while the initializer of an HTTP
\* device held the lock, and returned "init".
C20_Witness ==
    /\ last.op = "ended"
    /\ last.task.req = "on"
    /\ FastReturn(last.task)
    /\ devices[last.task.dev].init_task = "running"
    /\ devices[last.task.dev].request_lock.locked
    /\ devices[last.task.dev].state = "init"

\* ------------------------------------- properties of the request engine, II
\* what a coroutine that has called set_power must have seen before
SetOnChange(T) ==
    T.set_arg # "none" =>
        /\ T.request \in {"on", "off"}
        /\ T.request # T.refreshed
        /\ T.set_arg = T.request

\* C25: set_power is invoked only for a resolved request on/off that
\* differs from the state stored after the refresh (and with that value); a
\* status request, and an on/off request equal to the refreshed state, end
\* without invoking set_power and return the refreshed state.
C25_SetPowerOnlyOnChange ==
    /\ \A t \in TaskIds : SetOnChange(tasks[t])
    /\ Ended => SetOnChange(E)
    /\ (Ended /\ E.acquired /\ (E.request = "status" \/ E.request = E.refreshed))
            => /\ E.pc = "done"
               /\ E.set_arg = "none"
               /\ E.set_result = "none"
               /\ E.result = E.refreshed

\* C25 witness: an "on" request whose refresh found the device switched on
\* from outside (off -> on) returned "on" without invoking set_power.
C25_Witness ==
    /\ Ended
    /\ E.req = "on"
    /\ E.base_state = "off"
    /\ E.refreshed = "on"
    /\ E.result = "on"
    /\ E.set_arg = "none"

\* the service actions process_bound_services performs for a device
ServiceActions(D) ==
    IF D.bound_services # <<>> /\ D.state \in {"on", "off"}
    THEN Actions(IF D.state = "on" THEN "start" ELSE "stop", D.bound_services)
    ELSE <<>>

C27_ServicesBestEffort ==
    /\ \A t \in TaskIds :
            tasks[t].pc = "services" =>
                /\ tasks[t].notified = 1
                /\ tasks[t].svc_log =
                        SubSeq(ServiceActions(devices[tasks[t].dev]), 1,
                               tasks[t].svc_idx - 1)
    /\ (Ended /\ E.svc_log # <<>>)
            => /\ E.pc = "done"
               /\ E.notified = 1
               /\ E.svc_log = ServiceActions(ED)
               /\ E.svc_errors <= Len(E.svc_log)

\* C27 witness: the action failed on both bound services of a device that
\* was switched off, both were acted on and the request returned "off".
C27_Witness ==
    /\ Ended
    /\ E.pc = "done"
    /\ E.result = "off"
    /\ E.svc_errors = 2
    /\ E.svc_log = Actions("stop", ED.bound_services)

\* the latest step ended a request whose side-effect processing found the
\* state on with restart-on-power configured (it set the pending flag)
PoweredOn == Ended /\ E.restart_armed

\* C28 as stated: such a request, when klippy has completed startup, has
\* scheduled a FIRMWARE_RESTART.
C28_Original ==
    (PoweredOn /\ startup_complete(KlippyState)) => E.restarts = 1

\* C28 amended: such a request, when klippy has completed startup, has
\* scheduled one FIRMWARE_RESTART unless klippy reports ready, in which
\* case it has scheduled none; either way the pending flag is cleared.  A
\* request that did not set the flag schedules no restart.
C28_RestartUnlessReady ==
    /\ (PoweredOn /\ startup_complete(KlippyState))
            => /\ E.restarts = IF KlippyState = "ready" THEN 0 ELSE 1
               /\ ~ED.need_scheduled_restart
    /\ (Ended /\ ~E.restart_armed) => E.restarts = 0

\* C28 witness: the device was switched on while klippy was in shutdown and
\* the request scheduled the restart.
C28_Witness ==
    /\ PoweredOn
    /\ klippy = "shutdown"
    /\ E.set_result = "on"
    /\ E.restarts = 1

\* C29: a request that switches the device on before klippy has completed
\* startup schedules no restart and leaves the pending flag set; a
\* klippy_started event schedules one restart for each device whose flag is
\* set unless it carries "ready", none for the other devices, and leaves
\* no flag set.
C29_DeferredRestart ==
    /\ (PoweredOn /\ ~startup_complete(KlippyState))
            => /\ E.restarts = 0
               /\ ED.need_scheduled_restart
    /\ last.op = "klippy_started"
            => \A d \in DOMAIN devices :
                    /\ last.restarts[d] =
                            IF d \in last.pending /\ last.state # "ready" THEN 1 ELSE 0
                    /\ ~devices[d].need_scheduled_restart

\* C29 witness: a klippy_started event that carried "shutdown" found the
\* restart of a device pending and scheduled it.
C29_Witness ==
    /\ last.op = "klippy_started"
    /\ last.state = "shutdown"
    /\ \E d \in last.pending : last.restarts[d] = 1 /\ devices[d].state = "on"

\* ---------------------------------------------- properties of the loading
\* a section with a configuration error caught when the device is loaded
Faulty(sec) == sec.type \notin dev_types \/ ~sec.valid

\* the names of the sections of a list that satisfy P, in order
NamesOf(sections, P(_)) ==
    [i \in 1..Len(SelectSeq(sections, P)) |-> SelectSeq(sections, P)[i].name]

\* C24 as stated: the load does not fail, it registers every section
\* without a configuration error and records a warning for each of the
\* others; component_init does not fail and has created the initializer
\* of every device whose bound services are valid.
C24_ErrorIsolated ==
    /\ last.op = "load"
            => /\ last.error = "none"
               /\ last.warnings = NamesOf(last.sections, Faulty)
               /\ DOMAIN devices =
                    {last.sections[i].name : i \in
                        {j \in 1..Len(last.sections) : ~Faulty(last.sections[j])}}
    /\ last.op = "component_init"
            => /\ last.error = "none"
               /\ \A d \in DOMAIN devices :
                    setup_bound_services(devices[d])
                        => devices[d].init_task = "pending"

\* ------------------------------------------- properties of the update time
\* C21 as stated: whenever a process_request returns or fails, the
\* device's last update time is the current loop time.
C21_Original ==
    Ended => ED.last_update_time = loop_time

\* C21 amended: when a process_request that took the lock ends (it
\* returns, fails or is cancelled inside the body) the device's last update
\* time is the current loop time; a request that ends without having
\* taken the lock (the fast return while the device initializes, a
\* cancellation while queued for the lock) leaves the update time as it was.
C21_UpdateTime ==
    [][last'.op = "ended" =>
        devices'[last'.task.dev].last_update_time =
            IF last'.task.acquired THEN loop_time'
            ELSE devices[last'.task.dev].last_update_time]_vars

\* C21 witness: a request failed after the clock had advanced past the
\* previous update, and the update time is the current loop time.
C21_Witness ==
    /\ Ended
    /\ E.pc = "failed"
    /\ E.acquired
    /\ loop_time = MaxTime
    /\ ED.last_update_time = loop_time

\* ------------------------------------------ properties of the event runs
\* the coroutines _notify_external_change of device d handed to the loop
\* and not started
NotifyTasks(ts, d) ==
    {t \in TaskIds : /\ ts[t].pc = "start"
                     /\ ts[t].coro = "_notify_external_change"
                     /\ ts[t].dev = d}

\* the step leaves device d, its delayed callbacks and its coroutines as
\* they were
Untouched(d) ==
    /\ devices'[d] = devices[d]
    /\ delay_callbacks'[d] = delay_callbacks[d]
    /\ \A t \in TaskIds : tasks'[t].dev = d => tasks'[t] = tasks[t]

\* C30 as stated: a klippy shutdown event changes nothing for a device
\* whose off_when_shutdown is false, whatever its type.
C30_Original ==
    [][HandleKlippyShutdown =>
        \A d \in Devices : ~devices[d].off_when_shutdown => Untouched(d)]_vars

\* C30 amended: a klippy shutdown event changes nothing for a device whose
\* off_when_shutdown is false, unless the device is a klipper_device.  A
\* klipper_device (whose off_when_shutdown is always false) sets
\* is_shutdown, takes the state 'error' and the current update time,
\* cancels its auto-off timer, and schedules an external-change
\* notification when its state was on, off or (not yet) error and no
\* request held its lock.
C30_ShutdownNoOp ==
    [][HandleKlippyShutdown =>
        \A d \in Devices : ~devices[d].off_when_shutdown =>
            IF devices[d].type = "klipper"
            THEN /\ devices'[d] = [devices[d] EXCEPT !.is_shutdown = TRUE,
                                                      !.state = "error",
                                                      !.last_update_time = loop_time,
                                                      !.timer_handle = "none"]
                 /\ delay_callbacks'[d].auto = delay_callbacks[d].auto -
                        (IF devices[d].timer_handle = "armed" THEN 1 ELSE 0)
                 /\ NotifyTasks(tasks', d) \ NotifyTasks(tasks, d) # {}
                        <=> (/\ devices[d].state \in {"on", "off"}
                             /\ ~devices[d].request_lock.locked)
            ELSE Untouched(d)]_vars

\* C30 witness: a klipper_device has handled the shutdown event while
\* klippy is in shutdown: it is in shutdown and in state 'error', no
\* auto-off timer is armed and an external-change notification is
\* scheduled.
C30_Witness ==
    \E d \in Devices :
        /\ devices[d].type = "klipper"
        /\ ~devices[d].off_when_shutdown
        /\ devices[d].is_shutdown
        /\ devices[d].state = "error"
        /\ devices[d].timer_handle = "none"
        /\ delay_callbacks[d].auto = 0
        /\ NotifyTasks(tasks, d) # {}
        /\ klippy = "shutdown"

\* the state of device d leaves 'error' in the step
LeftError(d) == devices[d].state = "error" /\ devices'[d].state # "error"

\* the record of the coroutine of slot t after the step (the record it
\* ended with when the step ended it)
AfterStep(t) ==
    IF tasks'[t].pc = "idle" /\ last'.op = "ended" THEN last'.task ELSE tasks'[t]

\* in the step a process_request of device d completed a refresh_status
\* or a set_power that returned the state the device now has
BySuccess(d) ==
    \E t \in TaskIds :
        LET T == AfterStep(t)
        IN /\ T.coro = "process_request"
           /\ T.dev = d
           /\ T.acquired
           /\ \/ T.refreshed # tasks[t].refreshed /\ T.refreshed = devices'[d].state
              \/ T.set_result # tasks[t].set_result /\ T.set_result = devices'[d].state

\* the step handled the event `name` for device d
Handled(d, names) ==
    last'.op = "event" /\ last'.dev = d /\ last'.name \in names

ReportedFailure(T) ==
    T.refresh_failed \/ T.set_result = "fail" \/ T.error = "not_connected"

\* the latest step ended a process_request
EndedRequest == Ended /\ E.coro = "process_request"

C31_PollSleep ==
    last.op = "poll_sleep" =>
        last.sleep = devices[last.dev].poll_interval - last.elapsed

\* C32: after stop_polling was called on a device with a running poll
\* loop the loop eventually terminates and issues no status request once
\* it has ended.  With the request lock held stop_polling clears the poll
\* interval and the loop is waited for (it ends at its next wake or is
\* cancelled when the grace period expires); with the lock free the loop
\* is cancelled at once.
C32_PollStops ==
    /\ [][\A d \in Devices :
            /\ (last'.op = "close" /\ devices[d].poll_task = "set") =>
                    /\ devices'[d].poll_task = "none"
                    /\ IF devices[d].request_lock.locked
                       THEN /\ devices'[d].poll_interval = 0
                            /\ devices'[d].closing = "waiting"
                       ELSE devices'[d].poller = "none"
            /\ (devices[d].closing # "no" /\ devices[d].poller = "none") =>
                    /\ devices'[d].poller = "none"
                    /\ devices'[d].poll_slot = 0]_vars
    /\ \A d \in Devices :
            (devices[d].closing # "no") ~> (devices[d].poller = "none")

\* C32 witness: a polled device was closed while its lock was held (its
\* poll interval is cleared), its poll loop has ended and the close has
\* completed.
C32_Witness ==
    \E d \in Devices :
        /\ devices[d].closing = "closed"
        /\ PowerDevice(HttpPolled).poll_interval # 0
        /\ devices[d].type = "http"
        /\ devices[d].poll_interval = 0
        /\ devices[d].poller = "none"
        /\ devices[d].poll_task = "none"

\* --------------------------------- properties of external-change handling
\* the latest step ended a _notify_external_change
EndedNotify == last.op = "ended" /\ E.coro = "_notify_external_change"

\* C33: _notify_external_change runs its body only while it holds the
\* request lock of the device, so its notification and service actions
\* never overlap the locked body of a process_request on the device; it
\* sends the notification only (restrict_actions) or runs the full side
\* effects (notification, then the bound services for the state on or
\* off), and the last update time is the current loop time when it
\* releases the lock.
C33_ExternalChangeLocked ==
    /\ \A d \in Devices : Cardinality(InBody(d)) <= 1
    /\ \A t \in TaskIds :
            (tasks[t].coro = "_notify_external_change" /\ tasks[t].pc \in BodyPcs)
                => /\ tasks[t].acquired
                   /\ devices[tasks[t].dev].request_lock.locked
                   /\ tasks[t].notified = 1
    /\ EndedNotify =>
            /\ E.pc = "done"
            /\ E.acquired
            /\ ~ED.request_lock.locked
            /\ ED.last_update_time = loop_time
            /\ E.notified = 1
            /\ E.svc_log = IF ~ED.restrict_actions /\ E.base_state \in {"on", "off"}
                           THEN Actions(IF E.base_state = "on" THEN "start" ELSE "stop",
                                        ED.bound_services)
                           ELSE <<>>

\* C33 witness: an external change was processed with full side effects
\* while a request was queued for the lock behind it, and the clock had
\* advanced since the change was seen.
C33_Witness ==
    /\ EndedNotify
    /\ ~ED.restrict_actions
    /\ E.svc_log = Actions("start", ED.bound_services)
    /\ E.notified = 1
    /\ loop_time = MaxTime
    /\ ED.last_update_time = loop_time
    /\ \E t \in TaskIds : tasks[t].coro = "process_request" /\ tasks[t].pc = "wait_lock"

\* the state of device d changes in the step
StateChanged(d) == devices'[d].state # devices[d].state

\* the step is one of a coroutine or handler that holds, or takes in the
\* step, the request lock of device d: a process_request or a
\* _notify_external_change inside its locked body, _on_mqtt_connected,
\* _on_mqtt_disconnected, or _handle_ready with valid data
ByLockHolder(d) ==
    \/ \E t \in TaskIds :
            /\ AfterStep(t) # tasks[t]
            /\ AfterStep(t).dev = d
            /\ AfterStep(t).acquired
    \/ Handled(d, {"mqtt_connected", "mqtt_initialized", "mqtt_disconnected"})
    \/ Handled(d, {"klippy_ready"}) /\ devices'[d].state \in {"on", "off"}

InDriver(d) ==
    {t \in TaskIds : tasks[t].dev = d /\ tasks[t].pc \in {"refresh", "set_power"}}
        \cup (IF devices[d].init_pc = "set_power" THEN {0} ELSE {})

\* the request in slot record T has called a driver operation
CalledDriver(T) ==
    T.refreshed # "none" \/ T.set_arg # "none" \/ T.pc \in {"refresh", "set_power"}

\* C35: refresh_status and set_power of a device are invoked only under
\* its request lock: while a coroutine is inside one of them the lock is
\* held and no second coroutine is inside one, a request that has called
\* one had acquired the lock, and the initializer that has stored the
\* fetched state keeps the lock until it ends
C35_DriverUnderLock ==
    /\ \A d \in Devices :
          /\ InDriver(d) # {} => devices[d].request_lock.locked
          /\ Cardinality(InDriver(d)) <= 1
          /\ devices[d].init_pc # "none" => devices[d].request_lock.locked
    /\ \A t \in TaskIds : CalledDriver(tasks[t]) => tasks[t].acquired
    /\ last.op = "ended" /\ CalledDriver(last.task) => last.task.acquired

\* the initializer awaits the set_power of the initial state while a
\* request for the device waits for the lock
C35_Witness ==
    \E d \in Devices, t \in TaskIds :
        /\ devices[d].init_pc = "set_power"
        /\ tasks[t].dev = d /\ tasks[t].pc = "wait_lock"

\* ------------------------------------------------- properties of closing
\* the process_request in slot t is inside its locked body
HoldsLock(t) == tasks[t].pc \in BodyPcs /\ tasks[t].acquired

\* the step leaves the request of slot t in its body, or the request
\* returns or raises in it and the lock is released
RunsOn(t) ==
    \/ tasks'[t].pc \in BodyPcs /\ tasks'[t].dev = tasks[t].dev
    \/ /\ last'.op = "ended"
       /\ last'.task.pc \in {"done", "failed"}
       /\ last'.task.dev = tasks[t].dev
       /\ tasks'[t] = IdleTask
       /\ ~devices'[tasks[t].dev].request_lock.locked

\* the request of slot t is the status request the poll loop awaits
PollsRequest(t) ==
    /\ devices[tasks[t].dev].poller = "requesting"
    /\ devices[tasks[t].dev].poll_slot = t

InitLogs(D) ==
    LET svc == IF D.bound_services # <<>> THEN <<"service">> ELSE <<>>
        ends == <<"notify", "start_polling">>
    IN IF D.initial_state = "none" THEN {<<"state">> \o ends}
       ELSE {<<"state">> \o svc \o ends,
             <<"state", "set_power">> \o svc \o ends,
             <<"state", "set_power">> \o ends}

\* a notification of device d has been sent by a request
RequestNotified(d) ==
    \/ \E t \in TaskIds : tasks[t].dev = d /\ tasks[t].notified > 0
    \/ last.op = "ended" /\ last.task.dev = d /\ last.task.notified > 0

\* the initializer of HTTP device d before its first successful fetch:
\* nothing stored, nothing notified, no poll loop
BeforeFetch(d) ==
    /\ devices[d].state = "init"
    /\ devices[d].init_log = <<>>
    /\ devices[d].poll_task = "none" /\ devices[d].poller = "none"
    /\ ~RequestNotified(d)

\* C37 as stated: an initializer that has come to its end has reconciled
\* the bound services of the device.
C37_Original ==
    \A d \in Devices :
        (devices[d].type = "http" /\ devices[d].bound_services # <<>>
            /\ devices[d].init_log # <<>> /\ devices[d].init_pc = "none")
        => \E i \in 1..Len(devices[d].init_log) : devices[d].init_log[i] = "service"

\* C37, corrected: the initializer of an HTTP device holds the request
\* lock from its start to its end and sends the status request again
\* after every failure; before the first successful fetch nothing is
\* stored or notified and no poll loop runs.  After it the initializer
\* stores the state, calls set_power(initial_state) when the option is
\* set and differs from the stored state, reconciles the bound services
\* only when the option is set and that set_power did not raise, then
\* notifies and starts polling, and releases the lock.
C37_InitializerOrder ==
    /\ [](\A d \in Devices : devices[d].type = "http" =>
            /\ devices[d].init_task \in {"pending", "running"} => BeforeFetch(d)
            /\ devices[d].init_task = "running" => devices[d].request_lock.locked
            /\ devices[d].init_pc # "none" =>
                    /\ devices[d].request_lock.locked
                    /\ devices[d].poll_task = "none" /\ devices[d].poller = "none"
                    /\ \E l \in InitLogs(devices[d]) :
                          /\ Len(devices[d].init_log) <= Len(l) - 2
                          /\ devices[d].init_log
                                = SubSeq(l, 1, Len(devices[d].init_log))
            /\ (devices[d].init_log # <<>> /\ devices[d].init_pc = "none") =>
                    /\ devices[d].init_log \in InitLogs(devices[d])
                    /\ devices[d].poll_interval # 0 => devices[d].poller # "none")
    /\ [][\A d \in Devices :
            /\ (last'.op = "init_retry" /\ last'.dev = d) =>
                    /\ devices'[d].init_task = "running"
                    /\ devices'[d].request_lock.locked
            /\ (devices[d].init_task = "running" /\ devices'[d].init_task = "none") =>
                    /\ devices'[d].state \in {"on", "off"}
                    /\ (devices'[d].init_pc = "set_power") <=>
                            (devices[d].initial_state \notin {"none", devices'[d].state})
                    /\ (devices'[d].init_pc = "services") <=>
                            /\ devices[d].initial_state = devices'[d].state
                            /\ devices[d].bound_services # <<>>]_vars

\* C37 witness: an HTTP device with initial_state set and a bound
\* service whose initializer has stored the state, set the power,
\* reconciled the service, notified and started the poll loop.
C37_Witness ==
    \E d \in Devices :
        /\ devices[d].type = "http"
        /\ devices[d].initial_state # "none"
        /\ devices[d].init_log
              = <<"state", "set_power", "service", "notify", "start_polling">>
        /\ devices[d].poller = "sleeping"

\* the coroutines _notify_external_change of device d that the step
\* hands to the event loop
Scheduled(d) == NotifyTasks(tasks', d) \ NotifyTasks(tasks, d)

\* C38: a step schedules _notify_external_change for a device only when
\* it handles an event of the transport (a state update, a lost
\* connection, a klippy shutdown) while the request lock of the
\* device is free and the stored state changes, and then it schedules
\* one; a state update handled while the lock is held schedules none;
\* a _notify_external_change that ends has sent one notification.
C38_ExternalChangeScheduled ==
    [][\A d \in Devices :
          /\ Scheduled(d) # {} =>
                /\ Cardinality(Scheduled(d)) = 1
                /\ \/ last'.op = "event" /\ last'.dev = d
                   \/ HandleKlippyShutdown
                /\ ~devices[d].request_lock.locked
                /\ devices'[d].state # devices[d].state
          /\ (Handled(d, {"status_update", "state_update"})
                    /\ devices[d].request_lock.locked) => Scheduled(d) = {}
          /\ (last'.op = "ended" /\ last'.task.dev = d
                    /\ last'.task.coro = "_notify_external_change") =>
                last'.task.notified = 1]_vars

\* C38 witness: a state update that changed the stored state of a device
\* was handled while a request held the lock of the device, and no
\* _notify_external_change is scheduled.
C38_Witness ==
    \E d \in Devices :
        /\ last.op = "event" /\ last.dev = d
        /\ last.name \in {"status_update", "state_update"}
        /\ last.was # devices[d].state
        /\ last.was # "init"
        /\ devices[d].request_lock.locked
        /\ \E t \in TaskIds : tasks[t].dev = d /\ tasks[t].pc \in BodyPcs
        /\ NotifyTasks(tasks, d) = {}

\* ------------------------------------------- properties of the auto-off
\* a request of device d has started and not ended
InFlight(d) ==
    \E t \in TaskIds : tasks[t].dev = d /\ tasks[t].pc \notin {"idle", "start"}

\* an off request of device d was handed to the event loop (as the
\* callback of the auto-off timer does) and has not started
PendingOff(d) ==
    \E t \in TaskIds :
        tasks[t].dev = d /\ tasks[t].pc = "start" /\ tasks[t].req = "off"

\* C39 as stated: a device with a timer that is 'on' with no request in
\* flight has an auto-off timer armed or an off request pending.
C39_AutoOffPending ==
    \A d \in Devices :
        (/\ devices[d].timer # 0
         /\ devices[d].type \in {"gpio", "rf", "klipper"}
         /\ devices[d].closing = "no"
         /\ devices[d].state = "on"
         /\ ~InFlight(d))
        => (delay_callbacks[d].auto > 0 \/ PendingOff(d))

\* ------------------------------------------------ properties of progress
\* C40 as stated: every process_request that has started eventually
\* returns or raises (its slot is free again): none waits for ever for
\* the request lock.
C40_RequestsEnd ==
    \A t \in TaskIds : (tasks[t].pc # "idle") ~> (tasks[t].pc = "idle")

====
